---- MODULE Spec2Model ----
(***************************************************************************)
(* Verification model of the DexesScanner arbitrage valuation and          *)
(* pair-discovery engine:                                                  *)
(*   dex/Price_feeds.py            PriceFeed.calculate_price_impact        *)
(*   Arbitrage/arbitrage_detector.py   ArbitrageDetector (evaluation)      *)
(*   dex/pair_discovery.py         PairDiscovery (generation, ranking)     *)
(*                                                                         *)
(* Python floats are modelled as fixed-point numbers: the float x is the   *)
(* integer floor(x * FloatScale), and every float operation rounds its     *)
(* result down to that grid (IEEE rounding is likewise monotone).  Python  *)
(* integers are unbounded; products that exceed the model checker's integer*)
(* range are computed by MulDivFloor, which never forms the full product.  *)
(***************************************************************************)
EXTENDS Integers, Naturals, Sequences, FiniteSets, TLC

VARIABLES
    pi_reserves,    \* argument `reserves` of calculate_price_impact
    pi_ret,         \* the last call of calculate_price_impact and its outcome
    pi_prev,        \* the call before it, on the same reserves
    cs_args,        \* arguments of _calculate_confidence_score
    cs_ret,         \* its return value (NotCalled before the call)
    ev_pair,        \* the pair handed to _analyze_pair_opportunity
    ev_pools,       \* per venue, the pool the quote provider sees for the pair
    ev_gas_price,   \* gas_price argument, in gwei
    ev_max_trade,   \* settings.RISK_SETTINGS['max_trade_amount_eth']
    ev_analyses,    \* what _analyze_trade_amount returned per ladder amount
    ev_result,      \* what _analyze_pair_opportunity returned
    ev_pc,          \* "ready" before the call, "done" after it
    gen_tokens,     \* list(settings.TOKEN_UNIVERSE.keys())
    gen_tier,       \* the priority tier of each token of the universe
    gen_rules,      \* settings.PAIR_RULES
    gen_result,     \* what generate_potential_pairs returned (NotGenerated before)
    settings,       \* the settings PairDiscovery reads
    clock,          \* time.time(), in hours
    discovered_pairs,       \* PairDiscovery.discovered_pairs
    last_discovery_time,    \* PairDiscovery.last_discovery_time
    pairs_file,     \* the file at settings.discovered_pairs_path
    run,            \* the discover_all_pairs coroutine: its position and locals
    disc_ret,       \* what the last finished discover_all_pairs call returned
    active_ret,     \* what get_active_pairs has just returned to its caller, and when
    scan_settings,  \* the settings scan_for_opportunities reads
    cancel_is_exception,    \* whether asyncio.CancelledError derives from Exception
    scan,           \* the scan_for_opportunities coroutine: its position and locals
    scan_ret,       \* how the scan_for_opportunities call ended
    max_gas_price,  \* settings.MAX_GAS_PRICE_GWEI
    gas_clock,      \* time.time() as get_current_gas_price reads it, in seconds
    gas_price_cache,        \* ArbitrageDetector.gas_price_cache
    gas_price_timestamp,    \* ArbitrageDetector.gas_price_timestamp
    gas_ret,        \* the last get_current_gas_price call: its path and return value
    feed_clock,     \* time.time() as PriceFeed reads it, in seconds
    feed_chain,     \* the pool the factory and pair contracts show
    feed_cache,     \* PriceFeed.cache, its pair-address and its reserves entries
    feed_ret,       \* the last get_pair_address or get_reserves call
    runs,           \* concurrent discover_all_pairs coroutines, by name
    sleepers        \* the coroutines in asyncio.sleep, in the order of their wake-up

impactVars == <<pi_reserves, pi_ret, pi_prev>>
confVars == <<cs_args, cs_ret>>
evalVars == <<ev_pair, ev_pools, ev_gas_price, ev_max_trade, ev_analyses,
              ev_result, ev_pc>>

genVars == <<gen_tokens, gen_tier, gen_rules, gen_result>>
discVars == <<settings, clock, discovered_pairs, last_discovery_time, pairs_file,
              run, disc_ret, active_ret>>
scanVars == <<scan_settings, cancel_is_exception, scan, scan_ret>>
gasVars == <<max_gas_price, gas_clock, gas_price_cache, gas_price_timestamp, gas_ret>>
feedVars == <<feed_clock, feed_chain, feed_cache, feed_ret>>
concVars == <<runs, sleepers>>

vars == <<pi_reserves, pi_ret, pi_prev, cs_args, cs_ret, ev_pair, ev_pools,
          ev_gas_price, ev_max_trade, ev_analyses, ev_result, ev_pc,
          gen_tokens, gen_tier, gen_rules, gen_result,
          settings, clock, discovered_pairs, last_discovery_time, pairs_file,
          run, disc_ret, active_ret,
          scan_settings, cancel_is_exception, scan, scan_ret,
          max_gas_price, gas_clock, gas_price_cache, gas_price_timestamp, gas_ret,
          feed_clock, feed_chain, feed_cache, feed_ret, runs, sleepers>>

(***************************************************************************)
(* Bounds of the model.                                                    *)
(***************************************************************************)
\* resolution of the fixed-point model of floats: units per 1.0
FloatScale == 1000000
\* largest pool reserve drawn for calculate_price_impact
MaxReserve == 6
\* largest trade amount drawn for calculate_price_impact
MaxAmount == 7
\* unit of the evaluator's wei amounts: model wei per ether (the chain has
\* 10^18; reserves and trade amounts are drawn in this coarser unit)
WeiPerEther == 1000
\* largest gas price drawn, in gwei
MaxGasPrice == 4
\* largest token universe drawn for generate_potential_pairs
MaxTokens == 3
\* largest PAIR_RULES['max_pairs_per_token'] drawn
MaxPairsPerToken == 2
\* largest settings.MAX_PAIRS_TO_SCAN drawn for discovery
MaxPairsToScan == 2
\* hours between two readings of the discovery clock
HoursPerTick == 24
\* the last tick the discovery clock reaches
MaxClock == 1
\* pairs per batch of a scan (batch_size of scan_for_opportunities, scaled down)
ScanBatchSize == 2
\* seconds between two readings of the gas-price clock
GasTickSeconds == 15
\* the last tick the gas-price clock reaches
MaxGasTicks == 3
\* seconds between two readings of PriceFeed's clock
FeedTickSeconds == 15
\* the last tick PriceFeed's clock reaches
MaxFeedTicks == 3

(***************************************************************************)
(* Arithmetic helpers.                                                     *)
(***************************************************************************)
Abs(x) == IF x < 0 THEN -x ELSE x
Min(a, b) == IF a <= b THEN a ELSE b
Max(a, b) == IF a >= b THEN a ELSE b

\* One binary step of the long multiplication h*2 + bit*m modulo d, where
\* h = [q, r] is a quotient/remainder pair with r < d and m < d.
MulDivStep(h, bit, m, d) ==
    LET c1 == IF h.r >= d - h.r THEN 1 ELSE 0
        r1 == IF c1 = 1 THEN h.r - (d - h.r) ELSE h.r + h.r
        c2 == IF bit = 1 /\ r1 >= d - m THEN 1 ELSE 0
        r2 == IF bit = 0 THEN r1
              ELSE IF c2 = 1 THEN r1 - (d - m) ELSE r1 + m
    IN [q |-> h.q + h.q + c1 + c2, r |-> r2]

RECURSIVE MulDivRem(_, _, _)
\* [q, r] with x*m = q*d + r and 0 <= r < d, for x >= 0 and 0 <= m < d
MulDivRem(x, m, d) ==
    IF x = 0 THEN [q |-> 0, r |-> 0]
    ELSE MulDivStep(MulDivRem(x \div 2, m, d), x % 2, m, d)

\* the largest digit base B with d * B <= 2^29: a long-multiplication step
\* in base B then stays within the model checker's integers
MulDivBase(d) == 536870912 \div d

RECURSIVE MulDivRemBase(_, _, _, _)
\* [q, r] as for MulDivRem, taking the digits of x in base B >= 2
MulDivRemBase(x, m, d, B) ==
    IF x = 0 THEN [q |-> 0, r |-> 0]
    ELSE LET h == MulDivRemBase(x \div B, m, d, B)
             t == (h.r * B) + ((x % B) * m)
         IN  [q |-> (h.q * B) + (t \div d), r |-> t % d]

\* floor(x*n / d) for x, n >= 0 and d > 0 (Python's int // on big integers)
MulDivFloor(x, n, d) ==
    x * (n \div d)
        + (IF MulDivBase(d) >= 2 THEN MulDivRemBase(x, n % d, d, MulDivBase(d)).q
           ELSE MulDivRem(x, n % d, d).q)

\* float(a) / float(b) for non-negative integers a, b > 0
FDivInt(a, b) == MulDivFloor(a, FloatScale, b)
\* x / y for floats x >= 0, y > 0
FDiv(x, y) == MulDivFloor(x, FloatScale, y)
\* x * y for floats x, y >= 0
FMul(x, y) == MulDivFloor(x, y, FloatScale)
\* the float literal n/d
FLit(n, d) == (n * FloatScale) \div d
One == FloatScale
\* signed variants (the magnitude is rounded, as for floats)
FDivS(x, y) == IF x >= 0 THEN FDiv(x, y) ELSE 0 - FDiv(0 - x, y)
FMulS(x, y) == IF x >= 0 THEN FMul(x, y) ELSE 0 - FMul(0 - x, y)

(***************************************************************************)
(* PriceFeed.calculate_price_impact (is_token_a = True, the only way the   *)
(* repository calls it).  The function returns the float price_impact; the *)
(* record also exposes the local amount_out (Unassigned when the exception *)
(* is raised before the assignment) and whether the except branch ran.     *)
(***************************************************************************)
Unassigned == -1

\* calculate_price_impact with the abs() dropped from the impact
calculate_price_impact_signed(reserves, trade_amount) ==
    LET reserve_in == reserves.reserve_a
        reserve_out == reserves.reserve_b
        amount_in_with_fee == trade_amount * 997
        denominator == (reserve_in * 1000) + amount_in_with_fee
    IN  IF denominator = 0
        THEN [impact |-> One, amount_out |-> Unassigned, raised |-> TRUE]
        ELSE
        LET amount_out == MulDivFloor(amount_in_with_fee, reserve_out, denominator)
        IN  IF reserve_in = 0
            THEN [impact |-> One, amount_out |-> amount_out, raised |-> TRUE]
            ELSE
            LET original_price == FDivInt(reserve_out, reserve_in)
                new_price == FDivInt(reserve_out - amount_out, reserve_in + trade_amount)
            IN  IF original_price = 0
                THEN [impact |-> One, amount_out |-> amount_out, raised |-> TRUE]
                ELSE [impact |-> IF new_price >= original_price
                                 THEN FDiv(new_price - original_price, original_price)
                                 ELSE 0 - FDiv(original_price - new_price, original_price),
                      amount_out |-> amount_out, raised |-> FALSE]

\* calculate_price_impact whose except branch returns 0.0 instead of 1.0
calculate_price_impact_zero_on_error(reserves, trade_amount) ==
    LET reserve_in == reserves.reserve_a
        reserve_out == reserves.reserve_b
        amount_in_with_fee == trade_amount * 997
        denominator == (reserve_in * 1000) + amount_in_with_fee
    IN  IF denominator = 0
        THEN [impact |-> 0, amount_out |-> Unassigned, raised |-> TRUE]
        ELSE
        LET amount_out == MulDivFloor(amount_in_with_fee, reserve_out, denominator)
        IN  IF reserve_in = 0
            THEN [impact |-> 0, amount_out |-> amount_out, raised |-> TRUE]
            ELSE
            LET original_price == FDivInt(reserve_out, reserve_in)
                new_price == FDivInt(reserve_out - amount_out, reserve_in + trade_amount)
            IN  IF original_price = 0
                THEN [impact |-> 0, amount_out |-> amount_out, raised |-> TRUE]
                ELSE [impact |-> FDiv(Abs(new_price - original_price), original_price),
                      amount_out |-> amount_out, raised |-> FALSE]

\* calculate_price_impact with the fee factor 998 in place of 997
calculate_price_impact_fee998(reserves, trade_amount) ==
    LET reserve_in == reserves.reserve_a
        reserve_out == reserves.reserve_b
        amount_in_with_fee == trade_amount * 998
        denominator == (reserve_in * 1000) + amount_in_with_fee
    IN  IF denominator = 0
        THEN [impact |-> One, amount_out |-> Unassigned, raised |-> TRUE]
        ELSE
        LET amount_out == MulDivFloor(amount_in_with_fee, reserve_out, denominator)
        IN  IF reserve_in = 0
            THEN [impact |-> One, amount_out |-> amount_out, raised |-> TRUE]
            ELSE
            LET original_price == FDivInt(reserve_out, reserve_in)
                new_price == FDivInt(reserve_out - amount_out, reserve_in + trade_amount)
            IN  IF original_price = 0
                THEN [impact |-> One, amount_out |-> amount_out, raised |-> TRUE]
                ELSE [impact |-> FDiv(Abs(new_price - original_price), original_price),
                      amount_out |-> amount_out, raised |-> FALSE]

calculate_price_impact(reserves, trade_amount) ==
    LET reserve_in == reserves.reserve_a
        reserve_out == reserves.reserve_b
        amount_in_with_fee == trade_amount * 997
        denominator == (reserve_in * 1000) + amount_in_with_fee
    IN  IF denominator = 0
        THEN \* numerator // denominator raises ZeroDivisionError
             [impact |-> One, amount_out |-> Unassigned, raised |-> TRUE]
        ELSE
        LET amount_out == MulDivFloor(amount_in_with_fee, reserve_out, denominator)
        IN  IF reserve_in = 0
            THEN \* reserve_out / reserve_in raises ZeroDivisionError
                 [impact |-> One, amount_out |-> amount_out, raised |-> TRUE]
            ELSE
            LET original_price == FDivInt(reserve_out, reserve_in)
                new_price == FDivInt(reserve_out - amount_out, reserve_in + trade_amount)
            IN  IF original_price = 0
                THEN \* float division by zero raises ZeroDivisionError
                     [impact |-> One, amount_out |-> amount_out, raised |-> TRUE]
                ELSE [impact |-> FDiv(Abs(new_price - original_price), original_price),
                      amount_out |-> amount_out, raised |-> FALSE]

(***************************************************************************)
(* ArbitrageDetector._calculate_confidence_score.                          *)
(***************************************************************************)
\* _calculate_confidence_score returning the unclipped weighted sum
calculate_confidence_score_unclipped(price_impact_buy, price_impact_sell, liquidity_buy, liquidity_sell, profit_margin) ==
    LET impact_score ==
            Max(0, One - FDiv(price_impact_buy + price_impact_sell, FLit(1, 10)))
        min_liquidity == Min(liquidity_buy, liquidity_sell)
        liquidity_score == Min(One, FDiv(min_liquidity, 50 * One))
        profit_score == Min(One, FDivS(profit_margin, 5 * One))
    IN  FMul(impact_score, FLit(4, 10)) + FMul(liquidity_score, FLit(3, 10))
          + FMulS(profit_score, FLit(3, 10))

calculate_confidence_score(price_impact_buy, price_impact_sell, liquidity_buy, liquidity_sell, profit_margin) ==
    LET impact_score ==
            Max(0, One - FDiv(price_impact_buy + price_impact_sell, FLit(1, 10)))
        min_liquidity == Min(liquidity_buy, liquidity_sell)
        liquidity_score == Min(One, FDiv(min_liquidity, 50 * One))
        profit_score == Min(One, FDivS(profit_margin, 5 * One))
        confidence == FMul(impact_score, FLit(4, 10))
                        + FMul(liquidity_score, FLit(3, 10))
                        + FMulS(profit_score, FLit(3, 10))
    IN  Max(0, Min(One, confidence))

(***************************************************************************)
(* Unit conversions (Web3.from_wei / Web3.to_wei) and the gas estimate.    *)
(***************************************************************************)
GweiPerEther == 10^9
\* float(Web3.from_wei(amount_wei, 'ether'))
from_wei_ether(amount_wei) == FDivInt(amount_wei, WeiPerEther)
\* Web3.to_wei(amount_eth, 'ether'): truncates to whole wei
to_wei_ether(amount_eth) == MulDivFloor(amount_eth, WeiPerEther, FloatScale)

\* ArbitrageDetector._estimate_gas_cost; gas_price is in gwei
estimated_gas == 300000
estimate_gas_cost(gas_price) ==
    MulDivFloor(gas_price * estimated_gas, FloatScale, GweiPerEther)

(***************************************************************************)
(* PriceFeed._estimate_liquidity_eth and PriceFeed._get_dex_price.  A pool *)
(* is [exists, reserve_a, reserve_b], reserve_a being the reserve of the   *)
(* token passed as token_a.                                                *)
(***************************************************************************)
token_eth_values(token) ==
    IF token \in {"USDC", "USDT", "DAI"} THEN FLit(3, 10000)
    ELSE IF token = "WBTC" THEN 15 * One
    ELSE One

estimate_liquidity_eth(reserve_a, reserve_b, token_a, token_b) ==
    IF token_a = "WETH" THEN from_wei_ether(reserve_a * 2)
    ELSE IF token_b = "WETH" THEN from_wei_ether(reserve_b * 2)
    ELSE FMul(from_wei_ether(reserve_a * 2), token_eth_values(token_a))

NoQuote == [present |-> FALSE, price |-> 0, reserve_a |-> 0, reserve_b |-> 0,
            liquidity_eth |-> 0]

\* get_pair_address yields None for a missing pair, get_reserves yields None
\* when reserve_a == 0; in both cases _get_dex_price returns None
get_dex_price(pool, token_a, token_b) ==
    IF ~pool.exists \/ pool.reserve_a <= 0 THEN NoQuote
    ELSE [present |-> TRUE,
          price |-> FDivInt(pool.reserve_b, pool.reserve_a),
          reserve_a |-> pool.reserve_a,
          reserve_b |-> pool.reserve_b,
          liquidity_eth |-> estimate_liquidity_eth(pool.reserve_a, pool.reserve_b,
                                                   token_a, token_b)]

\* PriceFeed.get_prices_for_pair
get_prices_for_pair(pools, token_a, token_b) ==
    [uniswap |-> get_dex_price(pools.uniswap, token_a, token_b),
     sushiswap |-> get_dex_price(pools.sushiswap, token_a, token_b)]

(***************************************************************************)
(* ArbitrageDetector._calculate_trade_amounts.                             *)
(***************************************************************************)
calculate_trade_amounts(buy_reserves, sell_reserves, max_trade_amount_eth) ==
    LET min_liquidity_eth == Min(buy_reserves.liquidity_eth, sell_reserves.liquidity_eth)
        max_trade_eth == Min(FMul(min_liquidity_eth, FLit(1, 10)), max_trade_amount_eth)
        amounts_eth == << FMul(max_trade_eth, FLit(1, 10)),
                          FMul(max_trade_eth, FLit(25, 100)),
                          FMul(max_trade_eth, FLit(5, 10)),
                          max_trade_eth >>
        AtLeastMinimum(amount_eth) == amount_eth >= FLit(1, 1000)
        kept == SelectSeq(amounts_eth, AtLeastMinimum)
        amounts_wei == [i \in 1..Len(kept) |-> to_wei_ether(kept[i])]
    IN  SubSeq(amounts_wei, 1, Min(3, Len(amounts_wei)))

(***************************************************************************)
(* ArbitrageDetector._analyze_trade_amount.                                *)
(***************************************************************************)
NoAnalysis == [ok |-> FALSE, profit_eth |-> 0, net_profit_eth |-> 0,
               gas_cost_eth |-> 0, profit_margin_pct |-> 0, confidence_score |-> 0,
               price_impact_buy |-> 0, price_impact_sell |-> 0,
               sufficient_liquidity |-> FALSE]

\* the record built at the end of _analyze_trade_amount
AnalysisRecord(amount_wei, buy_reserves, sell_reserves, price_impact_buy, price_impact_sell, gas_cost_eth, adjusted_profit_eth, net_profit_eth) ==
    LET trade_amount_eth == from_wei_ether(amount_wei)
        profit_margin_pct ==
            IF net_profit_eth >= 0
            THEN FMul(FDiv(net_profit_eth, trade_amount_eth), 100 * One)
            ELSE 0 - FMul(FDiv(0 - net_profit_eth, trade_amount_eth), 100 * One)
    IN  [ok |-> TRUE,
         profit_eth |-> adjusted_profit_eth,
         net_profit_eth |-> net_profit_eth,
         gas_cost_eth |-> gas_cost_eth,
         profit_margin_pct |-> profit_margin_pct,
         confidence_score |->
             calculate_confidence_score(price_impact_buy, price_impact_sell,
                 buy_reserves.liquidity_eth, sell_reserves.liquidity_eth,
                 profit_margin_pct),
         price_impact_buy |-> price_impact_buy,
         price_impact_sell |-> price_impact_sell,
         sufficient_liquidity |->
             Min(buy_reserves.liquidity_eth, sell_reserves.liquidity_eth)
                 > trade_amount_eth * 2]

\* _analyze_trade_amount without the "Skip if not profitable" return
analyze_trade_amount_no_profit_check(amount_wei, buy_reserves, sell_reserves, gas_price) ==
    LET price_impact_buy == calculate_price_impact(buy_reserves, amount_wei).impact
        price_impact_sell == calculate_price_impact(sell_reserves, amount_wei).impact
    IN  IF price_impact_buy > FLit(5, 100) \/ price_impact_sell > FLit(5, 100)
        THEN NoAnalysis
        ELSE
        LET gas_cost_eth == estimate_gas_cost(gas_price)
            price_diff == Abs(buy_reserves.price - sell_reserves.price)
            gross_profit_eth == FMul(from_wei_ether(amount_wei), price_diff)
            impact_loss == FMul(gross_profit_eth, price_impact_buy + price_impact_sell)
            adjusted_profit_eth == gross_profit_eth - impact_loss
            net_profit_eth == adjusted_profit_eth - gas_cost_eth
        IN  IF amount_wei = 0 THEN NoAnalysis
            ELSE AnalysisRecord(amount_wei, buy_reserves, sell_reserves,
                                price_impact_buy, price_impact_sell, gas_cost_eth,
                                adjusted_profit_eth, net_profit_eth)

\* _analyze_trade_amount with "net_profit_eth < 0" in place of "<= 0"
analyze_trade_amount_strict(amount_wei, buy_reserves, sell_reserves, gas_price) ==
    LET price_impact_buy == calculate_price_impact(buy_reserves, amount_wei).impact
        price_impact_sell == calculate_price_impact(sell_reserves, amount_wei).impact
    IN  IF price_impact_buy > FLit(5, 100) \/ price_impact_sell > FLit(5, 100)
        THEN NoAnalysis
        ELSE
        LET gas_cost_eth == estimate_gas_cost(gas_price)
            price_diff == Abs(buy_reserves.price - sell_reserves.price)
            gross_profit_eth == FMul(from_wei_ether(amount_wei), price_diff)
            impact_loss == FMul(gross_profit_eth, price_impact_buy + price_impact_sell)
            adjusted_profit_eth == gross_profit_eth - impact_loss
            net_profit_eth == adjusted_profit_eth - gas_cost_eth
        IN  IF net_profit_eth < 0 THEN NoAnalysis
            ELSE IF amount_wei = 0 THEN NoAnalysis
            ELSE AnalysisRecord(amount_wei, buy_reserves, sell_reserves,
                                price_impact_buy, price_impact_sell, gas_cost_eth,
                                adjusted_profit_eth, net_profit_eth)

\* "Calculate profit (simplified calculation)": the trade amount in ether
\* times the absolute difference of the two quoted prices
simplified_gross_profit(amount_wei, buy_reserves, sell_reserves) ==
    LET price_diff == Abs(buy_reserves.price - sell_reserves.price)
    IN  FMul(from_wei_ether(amount_wei), price_diff)

analyze_trade_amount(amount_wei, buy_reserves, sell_reserves, gas_price) ==
    LET price_impact_buy == calculate_price_impact(buy_reserves, amount_wei).impact
        price_impact_sell == calculate_price_impact(sell_reserves, amount_wei).impact
    IN  \* Skip if price impact is too high
        IF price_impact_buy > FLit(5, 100) \/ price_impact_sell > FLit(5, 100)
        THEN NoAnalysis
        ELSE
        LET gas_cost_eth == estimate_gas_cost(gas_price)
            gross_profit_eth == simplified_gross_profit(amount_wei, buy_reserves,
                                                        sell_reserves)
            impact_loss == FMul(gross_profit_eth, price_impact_buy + price_impact_sell)
            adjusted_profit_eth == gross_profit_eth - impact_loss
            net_profit_eth == adjusted_profit_eth - gas_cost_eth
        IN  \* Skip if not profitable
            IF net_profit_eth <= 0 THEN NoAnalysis
            \* net_profit_eth / trade_amount_eth raises for a zero amount
            ELSE IF amount_wei = 0 THEN NoAnalysis
            ELSE AnalysisRecord(amount_wei, buy_reserves, sell_reserves,
                                price_impact_buy, price_impact_sell, gas_cost_eth,
                                adjusted_profit_eth, net_profit_eth)

(***************************************************************************)
(* ArbitrageDetector._analyze_pair_opportunity.                            *)
(***************************************************************************)
NoOpportunity ==
    [found |-> FALSE, pair |-> <<"", "">>, buy_dex |-> "", sell_dex |-> "",
     buy_price |-> 0, sell_price |-> 0, price_difference_pct |-> 0,
     trade_amount_wei |-> 0, estimated_profit_eth |-> 0, gas_cost_eth |-> 0,
     net_profit_eth |-> 0, profit_margin_pct |-> 0, confidence_score |-> 0,
     sufficient_liquidity |-> FALSE, price_impact_buy |-> 0,
     price_impact_sell |-> 0]

\* Which venue is bought on: [buy_dex, sell_dex]
TradeDirection(prices) ==
    IF prices.uniswap.price > prices.sushiswap.price
    THEN [buy_dex |-> "sushiswap", sell_dex |-> "uniswap"]
    ELSE [buy_dex |-> "uniswap", sell_dex |-> "sushiswap"]

\* The analyses of the ladder, in ladder order: <<[amount_wei, analysis]>>
LadderAnalyses(prices, gas_price, max_trade_amount_eth) ==
    LET dir == TradeDirection(prices)
        buy_reserves == prices[dir.buy_dex]
        sell_reserves == prices[dir.sell_dex]
        trade_amounts == calculate_trade_amounts(buy_reserves, sell_reserves,
                                                 max_trade_amount_eth)
    IN  [i \in 1..Len(trade_amounts) |->
            [amount_wei |-> trade_amounts[i],
             analysis |-> analyze_trade_amount(trade_amounts[i], buy_reserves,
                                               sell_reserves, gas_price)]]

\* the best_opportunity dict built from one analysis
OpportunityRecord(pair, context, amount_wei, analysis) ==
    [found |-> TRUE,
     pair |-> pair,
     buy_dex |-> context.buy_dex,
     sell_dex |-> context.sell_dex,
     buy_price |-> context.buy_price,
     sell_price |-> context.sell_price,
     price_difference_pct |-> context.price_diff_pct,
     trade_amount_wei |-> amount_wei,
     estimated_profit_eth |-> analysis.profit_eth,
     gas_cost_eth |-> analysis.gas_cost_eth,
     net_profit_eth |-> analysis.net_profit_eth,
     profit_margin_pct |-> analysis.profit_margin_pct,
     confidence_score |-> analysis.confidence_score,
     sufficient_liquidity |-> analysis.sufficient_liquidity,
     price_impact_buy |-> analysis.price_impact_buy,
     price_impact_sell |-> analysis.price_impact_sell]

RECURSIVE BestOfFirstRecord(_, _, _, _, _, _)
\* the loop keeping the first candidate that produced a record
BestOfFirstRecord(analyses, i, best_opportunity, best_profit, pair, context) ==
    IF i > Len(analyses) THEN best_opportunity
    ELSE IF analyses[i].analysis.ok
         THEN OpportunityRecord(pair, context, analyses[i].amount_wei,
                                analyses[i].analysis)
         ELSE BestOfFirstRecord(analyses, i + 1, best_opportunity, best_profit,
                                pair, context)

RECURSIVE BestOf(_, _, _, _, _, _)
\* the loop "for amount_wei in trade_amounts" from position i on
BestOf(analyses, i, best_opportunity, best_profit, pair, context) ==
    IF i > Len(analyses) THEN best_opportunity
    ELSE LET amount_wei == analyses[i].amount_wei
             analysis == analyses[i].analysis
         IN  IF analysis.ok /\ analysis.profit_eth > best_profit
             THEN BestOf(analyses, i + 1,
                         OpportunityRecord(pair, context, amount_wei, analysis),
                         analysis.profit_eth, pair, context)
             ELSE BestOf(analyses, i + 1, best_opportunity, best_profit, pair, context)

\* [result, analyses]: the returned opportunity and the ladder analyses made
analyze_pair_opportunity(pair, pools, gas_price, max_trade_amount_eth) ==
    LET prices == get_prices_for_pair(pools, pair[1], pair[2])
        nothing == [result |-> NoOpportunity, analyses |-> <<>>]
    IN  IF ~prices.uniswap.present \/ ~prices.sushiswap.present THEN nothing
        ELSE
        LET uniswap_price == prices.uniswap.price
            sushiswap_price == prices.sushiswap.price
            price_diff == Abs(uniswap_price - sushiswap_price)
        IN  \* price_diff / min(...) raises ZeroDivisionError for a zero price
            IF Min(uniswap_price, sushiswap_price) = 0 THEN nothing
            ELSE
            LET price_diff_pct ==
                    FMul(FDiv(price_diff, Min(uniswap_price, sushiswap_price)), 100 * One)
            IN  \* Skip if price difference is too small
                IF price_diff_pct < FLit(1, 10) THEN nothing
                ELSE
                LET dir == TradeDirection(prices)
                    context == [buy_dex |-> dir.buy_dex, sell_dex |-> dir.sell_dex,
                                buy_price |-> prices[dir.buy_dex].price,
                                sell_price |-> prices[dir.sell_dex].price,
                                price_diff_pct |-> price_diff_pct]
                    analyses == LadderAnalyses(prices, gas_price, max_trade_amount_eth)
                IN  [result |-> BestOf(analyses, 1, NoOpportunity, 0, pair, context),
                     analyses |-> analyses]

NoCall == [called |-> FALSE, trade_amount |-> 0, impact |-> 0,
           amount_out |-> Unassigned, raised |-> FALSE]

CallRecord(reserves, trade_amount) ==
    LET r == calculate_price_impact(reserves, trade_amount)
    IN [called |-> TRUE, trade_amount |-> trade_amount, impact |-> r.impact,
        amount_out |-> r.amount_out, raised |-> r.raised]

(***************************************************************************)
(* PairDiscovery.generate_potential_pairs.                                 *)
(***************************************************************************)
Range(seq) == {seq[i] : i \in 1..Len(seq)}

\* settings.get_priority_tokens(priority): the tokens of the universe that
\* belong to the tier, in universe order (the universe is partitioned into
\* the tiers)
get_priority_tokens(tokens, tier, priority) ==
    LET InTier(t) == tier[t] = priority
    IN  SelectSeq(tokens, InTier)

RECURSIVE Combinations2From(_, _, _)
\* itertools.combinations(seq, 2) from the position pair (i, j) on
Combinations2From(seq, i, j) ==
    IF i >= Len(seq) THEN <<>>
    ELSE IF j > Len(seq) THEN Combinations2From(seq, i + 1, i + 2)
    ELSE <<(<<seq[i], seq[j]>>)>> \o Combinations2From(seq, i, j + 1)

Combinations2(seq) == Combinations2From(seq, 1, 2)

\* for token in priority_tokens: if token != 'WETH': pairs.append(('WETH', token))
WethPairs(priority_tokens) ==
    LET NotWeth(t) == t # "WETH"
        others == SelectSeq(priority_tokens, NotWeth)
    IN  [i \in 1..Len(others) |-> <<"WETH", others[i]>>]

\* combinations([s for s in stablecoins if s in priority_tokens], 2)
StablecoinPairs(priority_tokens) ==
    LET stablecoins == <<"USDC", "USDT", "DAI", "FRAX">>
        InPriority(t) == t \in Range(priority_tokens)
    IN  Combinations2(SelectSeq(stablecoins, InPriority))

RECURSIVE AppendMajorNoReverseCheck(_, _, _)
\* the major-token loop without the "(token2, token1) not in pairs" test
AppendMajorNoReverseCheck(pairs, combos, i) ==
    IF i > Len(combos) THEN pairs
    ELSE LET token1 == combos[i][1]
             token2 == combos[i][2]
         IN  IF token1 # token2 /\ <<token1, token2>> \notin Range(pairs)
             THEN AppendMajorNoReverseCheck(Append(pairs, <<token1, token2>>), combos, i + 1)
             ELSE AppendMajorNoReverseCheck(pairs, combos, i + 1)

RECURSIVE AppendMajor(_, _, _)
\* for token1, token2 in combinations(priority_tokens, 2): append unless
\* the pair is already in pairs in either order
AppendMajor(pairs, combos, i) ==
    IF i > Len(combos) THEN pairs
    ELSE LET token1 == combos[i][1]
             token2 == combos[i][2]
         IN  IF /\ token1 # token2
                /\ <<token1, token2>> \notin Range(pairs)
                /\ <<token2, token1>> \notin Range(pairs)
             THEN AppendMajor(Append(pairs, <<token1, token2>>), combos, i + 1)
             ELSE AppendMajor(pairs, combos, i + 1)

\* one iteration of "for priority in ['high', 'medium', 'low']"
AddTier(pairs, tokens, tier, rules, priority) ==
    LET priority_tokens == get_priority_tokens(tokens, tier, priority)
        p1 == IF rules.always_include_weth /\ "WETH" \in Range(tokens)
              THEN pairs \o WethPairs(priority_tokens) ELSE pairs
        p2 == IF rules.stablecoin_pairs
              THEN p1 \o StablecoinPairs(priority_tokens) ELSE p1
    IN  IF rules.major_token_pairs
        THEN AppendMajor(p2, Combinations2(priority_tokens), 1)
        ELSE p2

\* the list `pairs` before the limits are applied
CandidatePairs(tokens, tier, rules) ==
    AddTier(AddTier(AddTier(<<>>, tokens, tier, rules, "high"),
                    tokens, tier, rules, "medium"),
            tokens, tier, rules, "low")

RECURSIVE ApplyLimitsFirstTokenOnly(_, _, _, _, _)
\* the limit loop testing only token1's count
ApplyLimitsFirstTokenOnly(pairs, i, unique_pairs, token_pair_count, max_pairs_per_token) ==
    IF i > Len(pairs) THEN unique_pairs
    ELSE LET token1 == pairs[i][1]
             token2 == pairs[i][2]
         IN  IF token_pair_count[token1] < max_pairs_per_token
             THEN ApplyLimitsFirstTokenOnly(pairs, i + 1, Append(unique_pairs, pairs[i]),
                      [t \in DOMAIN token_pair_count |->
                          token_pair_count[t] + (IF t = token1 THEN 1 ELSE 0)
                                              + (IF t = token2 THEN 1 ELSE 0)],
                      max_pairs_per_token)
             ELSE ApplyLimitsFirstTokenOnly(pairs, i + 1, unique_pairs, token_pair_count,
                                            max_pairs_per_token)

RECURSIVE ApplyLimits(_, _, _, _, _)
\* "Remove duplicates and apply limits": the loop over pairs from position i
ApplyLimits(pairs, i, unique_pairs, token_pair_count, max_pairs_per_token) ==
    IF i > Len(pairs) THEN unique_pairs
    ELSE LET token1 == pairs[i][1]
             token2 == pairs[i][2]
         IN  IF /\ token_pair_count[token1] < max_pairs_per_token
                /\ token_pair_count[token2] < max_pairs_per_token
             THEN ApplyLimits(pairs, i + 1, Append(unique_pairs, pairs[i]),
                      [t \in DOMAIN token_pair_count |->
                          token_pair_count[t] + (IF t = token1 THEN 1 ELSE 0)
                                              + (IF t = token2 THEN 1 ELSE 0)],
                      max_pairs_per_token)
             ELSE ApplyLimits(pairs, i + 1, unique_pairs, token_pair_count,
                              max_pairs_per_token)

\* token_pair_count starts at 0 for every token (the loop sets missing keys to 0)
ZeroCounts == [t \in {"WETH", "USDC", "USDT", "DAI", "FRAX", "WBTC"} |-> 0]

\* generate_potential_pairs whose limits do not count the hub's WETH pairs
generate_potential_pairs_unlimited(tokens, tier, rules) ==
    CandidatePairs(tokens, tier, rules)

generate_potential_pairs(tokens, tier, rules) ==
    ApplyLimits(CandidatePairs(tokens, tier, rules), 1, <<>>, ZeroCounts,
                rules.max_pairs_per_token)

(***************************************************************************)
(* PairDiscovery: validation of one candidate (check_single_pair).  A pool *)
(* as the chain holds it is [exists, reserve0, reserve1, a_is_token0]: the  *)
(* reserves in the pool's own token order, and whether the candidate's     *)
(* first token is the pool's token0.                                       *)
(***************************************************************************)
NoReserves == [present |-> FALSE, reserve0 |-> 0, reserve1 |-> 0,
               reserve_a |-> 0, reserve_b |-> 0, price |-> 0]

\* PriceFeed.get_pair_address followed by PriceFeed.get_reserves
get_reserves(pool) ==
    LET reserve_a == IF pool.a_is_token0 THEN pool.reserve0 ELSE pool.reserve1
        reserve_b == IF pool.a_is_token0 THEN pool.reserve1 ELSE pool.reserve0
    IN  IF ~pool.exists \/ reserve_a <= 0 THEN NoReserves
        ELSE [present |-> TRUE, reserve0 |-> pool.reserve0, reserve1 |-> pool.reserve1,
              reserve_a |-> reserve_a, reserve_b |-> reserve_b,
              price |-> FDivInt(reserve_b, reserve_a)]

\* PairDiscovery.calculate_liquidity_eth
eth_price_estimates(token) ==
    IF token \in {"USDC", "USDT", "DAI"} THEN FLit(3, 10000)
    ELSE IF token = "WBTC" THEN 15 * One
    ELSE One

calculate_liquidity_eth(reserves_data, token1_symbol, token2_symbol) ==
    IF token1_symbol = "WETH" THEN from_wei_ether(reserves_data.reserve0)
    ELSE IF token2_symbol = "WETH" THEN from_wei_ether(reserves_data.reserve1)
    ELSE FMul(from_wei_ether(reserves_data.reserve0), eth_price_estimates(token1_symbol))

\* PairDiscovery.get_pair_priority
get_pair_priority(tokens, tier, token1_symbol, token2_symbol) ==
    LET high_priority == Range(get_priority_tokens(tokens, tier, "high"))
        medium_priority == Range(get_priority_tokens(tokens, tier, "medium"))
    IN  IF token1_symbol \in high_priority /\ token2_symbol \in high_priority THEN "high"
        ELSE IF token1_symbol \in high_priority \/ token2_symbol \in high_priority
             THEN "medium"
        ELSE IF token1_symbol \in medium_priority /\ token2_symbol \in medium_priority
             THEN "medium"
        ELSE "low"

\* PriceFeed.get_pair_address: the pair contract of the venue's factory, or
\* None (NoPairAddress) when the factory answers with the zero address
NoPairAddress == <<>>
get_pair_address(dex, pool) == IF pool.exists THEN <<dex, "pair">> ELSE NoPairAddress

NoPairInfo ==
    [valid |-> FALSE, token1 |-> "", token2 |-> "",
     uniswap |-> [pair_address |-> NoPairAddress, liquidity_eth |-> 0, price |-> 0],
     sushiswap |-> [pair_address |-> NoPairAddress, liquidity_eth |-> 0, price |-> 0],
     metrics |-> [price_difference_pct |-> 0, min_liquidity_eth |-> 0,
                  total_liquidity_eth |-> 0, liquidity_ratio |-> 0],
     priority |-> "low", last_checked |-> 0, rank |-> 0, score |-> 0]

\* a liquidity guard that looks at uniswap alone
liquidity_too_low_uniswap_only(uniswap_liquidity_eth, sushiswap_liquidity_eth, min_liquidity) == uniswap_liquidity_eth < min_liquidity

\* the minimum liquidity requirement of check_single_pair (191)
liquidity_too_low(uniswap_liquidity_eth, sushiswap_liquidity_eth, min_liquidity) == uniswap_liquidity_eth < min_liquidity \/ sushiswap_liquidity_eth < min_liquidity

\* check_single_pair; market = [uniswap, sushiswap] pools, now = int(time.time()).
\* `valid` is FALSE for the return value None; rank and score are not set yet.
check_single_pair(token1_symbol, token2_symbol, market, config, now) ==
    LET uniswap_pair == get_pair_address("uniswap", market.uniswap)
        sushiswap_pair == get_pair_address("sushiswap", market.sushiswap)
        uniswap_data == get_reserves(market.uniswap)
        sushiswap_data == get_reserves(market.sushiswap)
    IN  IF uniswap_pair = NoPairAddress \/ sushiswap_pair = NoPairAddress THEN NoPairInfo
        ELSE IF ~uniswap_data.present \/ ~sushiswap_data.present THEN NoPairInfo
        ELSE
        LET uniswap_liquidity_eth ==
                calculate_liquidity_eth(uniswap_data, token1_symbol, token2_symbol)
            sushiswap_liquidity_eth ==
                calculate_liquidity_eth(sushiswap_data, token1_symbol, token2_symbol)
            min_liquidity == config.liquidity_threshold_eth
            min_price == Min(uniswap_data.price, sushiswap_data.price)
            max_liq == Max(uniswap_liquidity_eth, sushiswap_liquidity_eth)
        IN  IF liquidity_too_low(uniswap_liquidity_eth, sushiswap_liquidity_eth, min_liquidity)
            THEN NoPairInfo
            \* abs(...) / min(price) and min / max liquidity raise ZeroDivisionError
            ELSE IF min_price = 0 \/ max_liq = 0 THEN NoPairInfo
            ELSE
            LET price_diff ==
                    FDiv(Abs(uniswap_data.price - sushiswap_data.price), min_price)
            IN  IF price_diff > config.price_deviation_max THEN NoPairInfo
                ELSE
                [valid |-> TRUE, token1 |-> token1_symbol, token2 |-> token2_symbol,
                 uniswap |-> [pair_address |-> uniswap_pair,
                              liquidity_eth |-> uniswap_liquidity_eth,
                              price |-> uniswap_data.price],
                 sushiswap |-> [pair_address |-> sushiswap_pair,
                                liquidity_eth |-> sushiswap_liquidity_eth,
                                price |-> sushiswap_data.price],
                 metrics |->
                    [price_difference_pct |-> price_diff * 100,
                     min_liquidity_eth |-> Min(uniswap_liquidity_eth, sushiswap_liquidity_eth),
                     total_liquidity_eth |-> uniswap_liquidity_eth + sushiswap_liquidity_eth,
                     liquidity_ratio |->
                        FDiv(Min(uniswap_liquidity_eth, sushiswap_liquidity_eth), max_liq)],
                 priority |-> get_pair_priority(config.tokens, config.tier,
                                                token1_symbol, token2_symbol),
                 last_checked |-> now, rank |-> 0, score |-> 0]

\* check_pair_batch: the valid pair_info of a batch, in batch order;
\* markets[i] is what the venues show for batch[i]
check_pair_batch(batch, markets, config, now) ==
    LET infos == [i \in 1..Len(batch) |->
                     check_single_pair(batch[i][1], batch[i][2], markets[i], config, now)]
        IsValid(info) == info.valid
    IN  SelectSeq(infos, IsValid)

(***************************************************************************)
(* PairDiscovery.rank_pairs.                                               *)
(***************************************************************************)
calculate_score(pair) ==
    LET liquidity_score == Min(FDiv(pair.metrics.total_liquidity_eth, 100 * One), 10 * One)
        price_diff_score == pair.metrics.price_difference_pct * 10
        priority_score == IF pair.priority = "high" THEN 10 * One
                          ELSE IF pair.priority = "medium" THEN 5 * One ELSE One
        liquidity_balance_score == pair.metrics.liquidity_ratio * 5
    IN  liquidity_score + price_diff_score + priority_score + liquidity_balance_score

RECURSIVE InsertByScore(_, _)
\* insert pair into a list sorted by descending score, behind its equals
InsertByScore(sorted, pair) ==
    IF sorted = <<>> THEN <<pair>>
    ELSE IF calculate_score(Head(sorted)) >= calculate_score(pair)
         THEN <<Head(sorted)>> \o InsertByScore(Tail(sorted), pair)
         ELSE <<pair>> \o sorted

RECURSIVE SortByScoreDescending(_, _)
\* pairs.sort(key=calculate_score, reverse=True): stable, descending
SortByScoreDescending(pairs, n) ==
    IF n = 0 THEN <<>>
    ELSE InsertByScore(SortByScoreDescending(pairs, n - 1), pairs[n])

\* rank_pairs that leaves the list in discovery order
rank_pairs_unsorted(pairs) ==
    [i \in 1..Len(pairs) |->
        [pairs[i] EXCEPT !.rank = i, !.score = calculate_score(pairs[i])]]

rank_pairs(pairs) ==
    LET sorted == SortByScoreDescending(pairs, Len(pairs))
    IN  [i \in 1..Len(sorted) |->
            [sorted[i] EXCEPT !.rank = i, !.score = calculate_score(sorted[i])]]

\* "Limit to max pairs" left out
limit_to_max_pairs_missing(valid_pairs, max_pairs_to_scan) == valid_pairs

\* if len(valid_pairs) > MAX_PAIRS_TO_SCAN: valid_pairs = valid_pairs[:MAX_PAIRS_TO_SCAN]
limit_to_max_pairs(valid_pairs, max_pairs_to_scan) ==
    IF Len(valid_pairs) > max_pairs_to_scan
    THEN SubSeq(valid_pairs, 1, max_pairs_to_scan)
    ELSE valid_pairs

(***************************************************************************)
(* PairDiscovery.get_active_pairs (pair_discovery.py 301-316), with time   *)
(* in hours.  The result holds the list returned and the two fields of the *)
(* object as the call leaves them.                                          *)
(***************************************************************************)
stale_after_hours == 24

IsFresh(pair, current_time) == current_time - pair.last_checked < stale_after_hours

RECURSIVE FreshPairs(_, _)
FreshPairs(pairs, current_time) ==
    IF pairs = <<>> THEN <<>>
    ELSE IF IsFresh(Head(pairs), current_time)
         THEN <<Head(pairs)>> \o FreshPairs(Tail(pairs), current_time)
         ELSE FreshPairs(Tail(pairs), current_time)

\* a variant that also drops the stale entries from the cache
get_active_pairs_pruning(cache, discovery_time, current_time) ==
    [pairs |-> FreshPairs(cache, current_time),
     discovered_pairs |-> FreshPairs(cache, current_time),
     last_discovery_time |-> discovery_time]

get_active_pairs(cache, discovery_time, current_time) ==
    [pairs |-> IF cache = <<>> THEN <<>> ELSE FreshPairs(cache, current_time),
     discovered_pairs |-> cache,
     last_discovery_time |-> discovery_time]

(***************************************************************************)
(* ArbitrageDetector._scan_pair_batch, one pair of the batch.  A market is *)
(* [raises, pools]: whether evaluating the pair raises (its quote fetch or *)
(* its analysis), and the pools the venues show.  The result says what the *)
(* pair contributes and whether an exception leaves _scan_pair_batch.      *)
(***************************************************************************)
\* the pair's evaluation with neither try/except around it
scan_pair_unguarded(pair, market, gas_price, max_trade_amount_eth) ==
    [opportunity |->
        IF market.raises THEN NoOpportunity
        ELSE analyze_pair_opportunity(pair, market.pools, gas_price,
                                      max_trade_amount_eth).result,
     propagated |-> market.raises]

\* an exception is caught and logged in _analyze_pair_opportunity (226-228)
\* or in _scan_pair_batch (139-141); the pair is skipped
scan_pair(pair, market, gas_price, max_trade_amount_eth) ==
    [opportunity |->
        IF market.raises THEN NoOpportunity
        ELSE analyze_pair_opportunity(pair, market.pools, gas_price,
                                      max_trade_amount_eth).result,
     propagated |-> FALSE]

(***************************************************************************)
(* ArbitrageDetector._filter_profitable_opportunities.                     *)
(***************************************************************************)
RECURSIVE InsertByNetProfit(_, _)
\* insert opp into a list sorted by descending net profit, behind its equals
InsertByNetProfit(sorted, opp) ==
    IF sorted = <<>> THEN <<opp>>
    ELSE IF Head(sorted).net_profit_eth >= opp.net_profit_eth
         THEN <<Head(sorted)>> \o InsertByNetProfit(Tail(sorted), opp)
         ELSE <<opp>> \o sorted

RECURSIVE SortByNetProfitDescending(_, _)
\* profitable.sort(key=lambda x: x['net_profit_eth'], reverse=True): stable
SortByNetProfitDescending(opps, n) ==
    IF n = 0 THEN <<>>
    ELSE InsertByNetProfit(SortByNetProfitDescending(opps, n - 1), opps[n])

meets_min_profit(opp, config) == opp.net_profit_eth >= config.MIN_PROFIT_ETH
meets_confidence(opp, config) == opp.confidence_score >= config.confidence_threshold
has_sufficient_liquidity(opp) == opp.sufficient_liquidity

\* the filter without its confidence condition
filter_profitable_opportunities_no_confidence(opportunities, config) ==
    LET Keep(opp) == meets_min_profit(opp, config) /\ has_sufficient_liquidity(opp)
        profitable == SelectSeq(opportunities, Keep)
    IN  SortByNetProfitDescending(profitable, Len(profitable))

filter_profitable_opportunities(opportunities, config) ==
    LET Keep(opp) == /\ meets_min_profit(opp, config)
                     /\ meets_confidence(opp, config)
                     /\ has_sufficient_liquidity(opp)
        profitable == SelectSeq(opportunities, Keep)
    IN  SortByNetProfitDescending(profitable, Len(profitable))

(***************************************************************************)
(* The database write of scan_for_opportunities (94-97): whether a failed  *)
(* save_opportunity leaves the loop.                                       *)
(***************************************************************************)
\* the write without the try/except around it
save_failure_propagates_unguarded(saved) == ~saved

save_failure_propagates(saved) == FALSE

(***************************************************************************)
(* ArbitrageDetector.get_current_gas_price.  Prices are in gwei, times in  *)
(* seconds; fetch = [ok, gas_price] is what w3.eth.gas_price does.  The    *)
(* result is the returned value, the path taken, and the cache afterwards. *)
(***************************************************************************)
NoGasPrice == -1
gas_cache_seconds == 30
default_gas_price_gwei == 20

get_current_gas_price(cache, timestamp, current_time, fetch, max_gas_price_gwei) ==
    IF cache # NoGasPrice /\ cache # 0 /\ current_time - timestamp < gas_cache_seconds
    THEN [value |-> cache, path |-> "cache", cache |-> cache, timestamp |-> timestamp]
    ELSE IF fetch.ok
    THEN LET gas_price == Min(fetch.gas_price, max_gas_price_gwei)
         IN  [value |-> gas_price, path |-> "fetch",
              cache |-> gas_price, timestamp |-> current_time]
    ELSE [value |-> default_gas_price_gwei, path |-> "default",
          cache |-> cache, timestamp |-> timestamp]

(***************************************************************************)
(* Each specification below exercises one component and keeps the state of *)
(* the others at rest.                                                     *)
(***************************************************************************)
NotCalled == -1
NoPool == [exists |-> FALSE, reserve_a |-> 0, reserve_b |-> 0]

IdleImpact ==
    /\ pi_reserves = [reserve_a |-> 0, reserve_b |-> 0]
    /\ pi_ret = NoCall
    /\ pi_prev = NoCall

IdleConf ==
    /\ cs_args = <<0, 0, 0, 0, 0>>
    /\ cs_ret = NotCalled

IdleEval ==
    /\ ev_pair = <<"", "">>
    /\ ev_pools = [uniswap |-> NoPool, sushiswap |-> NoPool]
    /\ ev_gas_price = 0
    /\ ev_max_trade = 0
    /\ ev_analyses = <<>>
    /\ ev_result = NoOpportunity
    /\ ev_pc = "idle"

NotGenerated == <<(<<"", "">>)>>

IdleRun == [pc |-> "idle", force_refresh |-> FALSE, current_time |-> 0,
            potential_pairs |-> <<>>, i |-> 0, valid_pairs |-> <<>>]
NoReturn == [returned |-> FALSE, full_run |-> FALSE, limited |-> FALSE, pairs |-> <<>>]
NoFile == [exists |-> FALSE, pairs |-> <<>>, last_update |-> 0]
NoActiveReturn == [called |-> FALSE, current_time |-> 0, pairs |-> <<>>]

IdleDisc ==
    /\ settings = [tokens |-> <<>>, tier |-> [t \in {} |-> "high"],
                   rules |-> [always_include_weth |-> FALSE, stablecoin_pairs |-> FALSE,
                              major_token_pairs |-> FALSE, max_pairs_per_token |-> 0],
                   MAX_PAIRS_TO_SCAN |-> 0, DISCOVERY_INTERVAL_HOURS |-> 0,
                   batch_size |-> 1, liquidity_threshold_eth |-> 0,
                   price_deviation_max |-> 0]
    /\ clock = 0
    /\ discovered_pairs = <<>>
    /\ last_discovery_time = 0
    /\ pairs_file = NoFile
    /\ run = IdleRun
    /\ disc_ret = NoReturn
    /\ active_ret = NoActiveReturn

IdleGen ==
    /\ gen_tokens = <<>>
    /\ gen_tier = [t \in {} |-> "high"]
    /\ gen_rules = [always_include_weth |-> FALSE, stablecoin_pairs |-> FALSE,
                    major_token_pairs |-> FALSE, max_pairs_per_token |-> 0]
    /\ gen_result = NotGenerated

IdleScanRun ==
    [pc |-> "idle", pairs_to_scan |-> <<>>, gas_price |-> 0, i |-> 0,
     batch_opportunities |-> <<>>, opportunities |-> <<>>, evaluated |-> <<>>,
     profitable |-> <<>>, k |-> 0, stored |-> <<>>,
     cancelled |-> FALSE, at_cancel |-> <<>>]
NoScanReturn == [outcome |-> "none", list |-> <<>>]

IdleScan ==
    /\ scan_settings = [MIN_PROFIT_ETH |-> 0, confidence_threshold |-> 0,
                        max_trade_amount_eth |-> 0]
    /\ cancel_is_exception = FALSE
    /\ scan = IdleScanRun
    /\ scan_ret = NoScanReturn

NoGasReturn == [returned |-> FALSE, value |-> 0, path |-> "", fetch_ok |-> FALSE,
                cache_before |-> NoGasPrice, timestamp_before |-> 0]

IdleGas ==
    /\ max_gas_price = 0
    /\ gas_clock = 0
    /\ gas_price_cache = NoGasPrice
    /\ gas_price_timestamp = 0
    /\ gas_ret = NoGasReturn

(***************************************************************************)
(* PriceFeed: the cache (Price_feeds.py 79-100) and the two cached         *)
(* fetches, get_pair_address (102-134) and get_reserves (136-195).  The    *)
(* cache is held in two parts, one per kind of key: "pair" keys            *)
(* <<dex, token_a, token_b>> with an address as data and "reserves" keys   *)
(* (a pair address) with a result dict as data.                            *)
(***************************************************************************)
cache_ttl == 30

ZeroAddress == "0x0000000000000000000000000000000000000000"
NoAddress == ""
NoReservesResult ==
    [present |-> FALSE, pair_address |-> "", reserve0 |-> 0, reserve1 |-> 0,
     reserve_a |-> 0, reserve_b |-> 0, price |-> 0, token0 |-> "", token1 |-> "",
     liquidity_eth |-> 0]

NoAddressEntry == [present |-> FALSE, data |-> NoAddress, timestamp |-> 0]
NoReservesEntry == [present |-> FALSE, data |-> NoReservesResult, timestamp |-> 0]

\* _is_cache_valid serving an entry up to and including the age cache_ttl
is_cache_valid_inclusive(entry, now) ==
    entry.present /\ now - entry.timestamp <= cache_ttl

\* _is_cache_valid, for the entry of the key (absent when not present)
is_cache_valid(entry, now) ==
    entry.present /\ now - entry.timestamp < cache_ttl

\* _get_from_cache: the data if valid, else None
get_from_cache(entry, now, none) ==
    IF is_cache_valid(entry, now) THEN entry.data ELSE none

\* _set_cache: the entry stored
set_cache(data, now) == [present |-> TRUE, data |-> data, timestamp |-> now]

\* factory.functions.getPair(token_a, token_b).call()
factory_getPair(chain, dex, token_a, token_b) ==
    IF dex = chain.dex /\ {token_a, token_b} = {chain.token0, chain.token1}
       /\ token_a # token_b
    THEN chain.pair_address
    ELSE ZeroAddress

\* the body of get_reserves behind the cache lookup, when no call raises
fetch_reserves(chain, pair_address, token_a, token_b) ==
    LET reserve0 == chain.reserve0
        reserve1 == chain.reserve1
        reserve_a == IF token_a = chain.token0 THEN reserve0 ELSE reserve1
        reserve_b == IF token_a = chain.token0 THEN reserve1 ELSE reserve0
    IN  IF token_a # chain.token0 /\ token_a # chain.token1 THEN NoReservesResult
        ELSE IF reserve_a <= 0 THEN NoReservesResult
        ELSE [present |-> TRUE,
              pair_address |-> pair_address,
              reserve0 |-> reserve0,
              reserve1 |-> reserve1,
              reserve_a |-> reserve_a,
              reserve_b |-> reserve_b,
              price |-> FDivInt(reserve_b, reserve_a),
              token0 |-> chain.token0,
              token1 |-> chain.token1,
              liquidity_eth |-> estimate_liquidity_eth(reserve_a, reserve_b,
                                                       token_a, token_b)]

FeedDexes == {"uniswap", "sushiswap"}
FeedTokenArgs == {<<"WETH", "USDC">>, <<"USDC", "WETH">>, <<"DAI", "WETH">>}
FeedPairKeys == {<<dex, t[1], t[2]>> : dex \in FeedDexes, t \in FeedTokenArgs}
FeedPairAddresses == {"0xPair"}

NoFeedReturn ==
    [called |-> FALSE, op |-> "", key |-> <<>>, token_a |-> "", token_b |-> "",
     time |-> 0, hit |-> FALSE, outcome |-> "", address |-> NoAddress,
     reserves |-> NoReservesResult, before |-> [present |-> FALSE, timestamp |-> 0]]

IdleFeed ==
    /\ feed_clock = 0
    /\ feed_chain = [dex |-> "", pair_address |-> "", token0 |-> "", token1 |-> "",
                     reserve0 |-> 0, reserve1 |-> 0]
    /\ feed_cache = [pair |-> [k \in FeedPairKeys |-> NoAddressEntry],
                     reserves |-> [k \in FeedPairAddresses |-> NoReservesEntry]]
    /\ feed_ret = NoFeedReturn

RunNames == {"first", "second"}

IdleConc ==
    /\ runs = [r \in RunNames |-> IdleRun]
    /\ sleepers = <<>>

(***************************************************************************)
(* Specification SpecImpact: calculate_price_impact applied to drawn       *)
(* reserves and trade amounts.                                             *)
(***************************************************************************)
\* the worked example of the design document: reserves 1000 / 2000000, amount 100
ExampleTrade == [reserves |-> [reserve_a |-> 1000, reserve_b |-> 2000000],
                 trade_amount |-> 100]

ReserveInputs ==
    [reserve_a : 0..MaxReserve, reserve_b : 0..MaxReserve] \cup {ExampleTrade.reserves}
AmountInputs == 0..MaxAmount \cup {ExampleTrade.trade_amount}

InitImpact ==
    /\ pi_reserves \in ReserveInputs
    /\ pi_ret = NoCall
    /\ pi_prev = NoCall
    /\ IdleConf
    /\ IdleEval
    /\ IdleGen
    /\ IdleDisc
    /\ IdleScan
    /\ IdleGas
    /\ IdleFeed
    /\ IdleConc

PriceImpactCall ==
    \E trade_amount \in AmountInputs :
        /\ pi_ret' = CallRecord(pi_reserves, trade_amount)
        /\ pi_prev' = pi_ret
        /\ UNCHANGED pi_reserves
        /\ UNCHANGED <<confVars, evalVars, genVars, discVars, scanVars, gasVars, feedVars, concVars>>

NextImpact == PriceImpactCall

SpecImpact == InitImpact /\ [][NextImpact]_vars

(***************************************************************************)
(* Specification SpecConfidence: _calculate_confidence_score applied to    *)
(* drawn arguments.                                                        *)
(***************************************************************************)
\* price impacts 0%, 2%, 5%, 10%, 100%
ImpactArgs == {FLit(k, 100) : k \in {0, 2, 5, 10, 100}}
\* liquidities 0, 10, 50, 200 ETH
LiquidityArgs == {k * One : k \in {0, 10, 50, 200}}
\* profit margins -100%, -10%, 0%, 2.5%, 5%, 100%
MarginArgs == {0 - 100 * One, 0 - 10 * One, 0, FLit(5, 2), 5 * One, 100 * One}

InitConfidence ==
    /\ cs_args \in ImpactArgs \X ImpactArgs \X LiquidityArgs \X LiquidityArgs \X MarginArgs
    /\ cs_ret = NotCalled
    /\ IdleImpact
    /\ IdleEval
    /\ IdleGen
    /\ IdleDisc
    /\ IdleScan
    /\ IdleGas
    /\ IdleFeed
    /\ IdleConc

ConfidenceCall ==
    /\ cs_ret = NotCalled
    /\ cs_ret' = calculate_confidence_score(cs_args[1], cs_args[2], cs_args[3],
                                            cs_args[4], cs_args[5])
    /\ UNCHANGED cs_args
    /\ UNCHANGED <<impactVars, evalVars, genVars, discVars, scanVars, gasVars, feedVars, concVars>>

NextConfidence == ConfidenceCall

SpecConfidence == InitConfidence /\ [][NextConfidence]_vars

(***************************************************************************)
(* Specification SpecEval: _analyze_pair_opportunity applied to a drawn    *)
(* pair, drawn pools on the two venues, a drawn gas price and a drawn      *)
(* maximum trade size.                                                     *)
(***************************************************************************)
PairInputs == {<<"WETH", "USDC">>, <<"USDC", "WETH">>, <<"WBTC", "USDC">>}
\* small pools, whose ladder is limited by their liquidity, and pools of
\* 1 ETH on which several amounts of a capped ladder stay within the impact cap
PoolInputs ==
    {NoPool} \cup [exists : {TRUE}, reserve_a : {0, 50, 100},
                   reserve_b : {0, 100, 200, 300}]
             \cup [exists : {TRUE}, reserve_a : {1000}, reserve_b : {2000, 2200}]
\* maximum trade sizes 0.001 ETH, 0.02 ETH and 5 ETH
MaxTradeInputs == {FLit(1, 1000), FLit(2, 100), 5 * One}

InitEval ==
    /\ ev_pair \in PairInputs
    /\ ev_pools \in [uniswap : PoolInputs, sushiswap : PoolInputs]
    /\ ev_gas_price \in 0..MaxGasPrice
    /\ ev_max_trade \in MaxTradeInputs
    /\ ev_analyses = <<>>
    /\ ev_result = NoOpportunity
    /\ ev_pc = "ready"
    /\ IdleImpact
    /\ IdleConf
    /\ IdleGen
    /\ IdleDisc
    /\ IdleScan
    /\ IdleGas
    /\ IdleFeed
    /\ IdleConc

AnalyzePairOpportunity ==
    /\ ev_pc = "ready"
    /\ LET r == analyze_pair_opportunity(ev_pair, ev_pools, ev_gas_price, ev_max_trade)
       IN  /\ ev_result' = r.result
           /\ ev_analyses' = r.analyses
    /\ ev_pc' = "done"
    /\ UNCHANGED <<ev_pair, ev_pools, ev_gas_price, ev_max_trade>>
    /\ UNCHANGED <<impactVars, confVars, genVars, discVars, scanVars, gasVars, feedVars, concVars>>

NextEval == AnalyzePairOpportunity

SpecEval == InitEval /\ [][NextEval]_vars

(***************************************************************************)
(* Specification SpecGen: generate_potential_pairs applied to a drawn      *)
(* token universe (an ordered list without repetition), a drawn assignment *)
(* of its tokens to the tiers and drawn pair rules.                        *)
(***************************************************************************)
TokenPool == {"WETH", "USDC", "USDT", "DAI", "WBTC"}
Tiers == {"high", "medium", "low"}
UniverseInputs ==
    {u \in UNION {[1..n -> TokenPool] : n \in 0..MaxTokens} :
        \A i, j \in 1..Len(u) : i # j => u[i] # u[j]}
RuleInputs ==
    [always_include_weth : BOOLEAN, stablecoin_pairs : BOOLEAN,
     major_token_pairs : BOOLEAN, max_pairs_per_token : 0..MaxPairsPerToken]

InitGen ==
    /\ gen_tokens \in UniverseInputs
    /\ gen_tier \in [Range(gen_tokens) -> Tiers]
    /\ gen_rules \in RuleInputs
    /\ gen_result = NotGenerated
    /\ IdleImpact
    /\ IdleConf
    /\ IdleEval
    /\ IdleDisc
    /\ IdleScan
    /\ IdleGas
    /\ IdleFeed
    /\ IdleConc

GeneratePotentialPairs ==
    /\ gen_result = NotGenerated
    /\ gen_result' = generate_potential_pairs(gen_tokens, gen_tier, gen_rules)
    /\ UNCHANGED <<gen_tokens, gen_tier, gen_rules>>
    /\ UNCHANGED <<impactVars, confVars, evalVars, discVars, scanVars, gasVars, feedVars, concVars>>

NextGen == GeneratePotentialPairs

SpecGen == InitGen /\ [][NextGen]_vars

(***************************************************************************)
(* Specification SpecDiscovery: a PairDiscovery object over time.          *)
(* discover_all_pairs suspends only in asyncio.sleep(1) after each batch   *)
(* (the awaited price-feed coroutines never yield), so a run is one step   *)
(* up to the first sleep, one step per further batch, and a last step that *)
(* ranks, limits, stores and saves.                                        *)
(***************************************************************************)
Pool(r0, r1, a0) == [exists |-> TRUE, reserve0 |-> r0, reserve1 |-> r1, a_is_token0 |-> a0]
AbsentPool == [exists |-> FALSE, reserve0 |-> 0, reserve1 |-> 0, a_is_token0 |-> TRUE]

\* what the two venues may show for a candidate when it is checked
MarketInputs ==
    { [uniswap |-> AbsentPool, sushiswap |-> Pool(200, 400, TRUE)],
      [uniswap |-> Pool(200, 400, TRUE), sushiswap |-> Pool(100, 225, TRUE)],
      [uniswap |-> Pool(200, 400, TRUE), sushiswap |-> Pool(50, 100, TRUE)],
      [uniswap |-> Pool(100, 200, TRUE), sushiswap |-> Pool(100, 300, TRUE)],
      [uniswap |-> Pool(400, 200, FALSE), sushiswap |-> Pool(200, 400, TRUE)] }

DiscoveryTokens == <<"WETH", "WBTC", "USDC">>
DiscoveryTiers ==
    { [t \in Range(DiscoveryTokens) |-> "high"],
      [t \in Range(DiscoveryTokens) |-> IF t = "USDC" THEN "medium" ELSE "high"] }

SettingsInputs ==
    [tokens : {DiscoveryTokens},
     tier : DiscoveryTiers,
     rules : {[always_include_weth |-> TRUE, stablecoin_pairs |-> TRUE,
               major_token_pairs |-> TRUE, max_pairs_per_token |-> 2]},
     MAX_PAIRS_TO_SCAN : 1..MaxPairsToScan,
     DISCOVERY_INTERVAL_HOURS : {1},
     batch_size : {2},
     liquidity_threshold_eth : {FLit(1, 10)},
     price_deviation_max : {FLit(1, 8)}]

\* __init__ followed by load_discovered_pairs
LoadDiscoveredPairs(file) ==
    [pairs |-> IF file.exists THEN file.pairs ELSE <<>>,
     last_update |-> IF file.exists THEN file.last_update ELSE 0]

InitDiscovery ==
    /\ settings \in SettingsInputs
    /\ clock = 0
    /\ pairs_file = NoFile
    /\ discovered_pairs = LoadDiscoveredPairs(pairs_file).pairs
    /\ last_discovery_time = LoadDiscoveredPairs(pairs_file).last_update
    /\ run = IdleRun
    /\ disc_ret = NoReturn
    /\ active_ret = NoActiveReturn
    /\ IdleImpact
    /\ IdleConf
    /\ IdleEval
    /\ IdleGen
    /\ IdleScan
    /\ IdleGas
    /\ IdleFeed
    /\ IdleConc

\* potential_pairs[i:i + batch_size], i counting from 0
BatchAt(potential_pairs, i, batch_size) ==
    SubSeq(potential_pairs, i + 1, Min(i + batch_size, Len(potential_pairs)))

\* save_discovered_pairs: the file as it is afterwards
save_discovered_pairs(pairs, now) ==
    [exists |-> TRUE, pairs |-> pairs, last_update |-> now]

\* the part of discover_all_pairs behind the batch loop; disc_ret.limited
\* tells whether the "Limited to top ..." line was logged
FinishDiscovery(valid_pairs, current_time) ==
    LET ranked == rank_pairs(valid_pairs)
        limited == limit_to_max_pairs(ranked, settings.MAX_PAIRS_TO_SCAN)
    IN  /\ discovered_pairs' = limited
        /\ last_discovery_time' = current_time
        /\ pairs_file' = save_discovered_pairs(limited, clock)
        /\ disc_ret' = [returned |-> TRUE, full_run |-> TRUE,
                        limited |-> Len(ranked) > settings.MAX_PAIRS_TO_SCAN,
                        pairs |-> limited]
        /\ run' = IdleRun

\* one pass of the batch loop from offset i, up to its asyncio.sleep
CheckBatchAndSleep(force_refresh, current_time, potential_pairs, i, valid_pairs) ==
    LET batch == BatchAt(potential_pairs, i, settings.batch_size)
    IN  \E markets \in [1..Len(batch) -> MarketInputs] :
            /\ run' = [pc |-> "sleeping", force_refresh |-> force_refresh,
                       current_time |-> current_time,
                       potential_pairs |-> potential_pairs,
                       i |-> i + settings.batch_size,
                       valid_pairs |-> valid_pairs
                                        \o check_pair_batch(batch, markets, settings, clock)]
            /\ UNCHANGED <<discovered_pairs, last_discovery_time, pairs_file, disc_ret>>

\* the cached-return condition without the test that the cache is non-empty
use_cached_pairs_when_empty(force_refresh, time_since_last, interval_hours, cache) ==
    ~force_refresh /\ time_since_last < interval_hours

\* "Check if we need to refresh": the condition under which the cached pairs
\* are returned
use_cached_pairs(force_refresh, time_since_last, interval_hours, cache) ==
    /\ ~force_refresh
    /\ time_since_last < interval_hours
    /\ cache # <<>>

\* discover_all_pairs is called and runs to its return or its first sleep
DiscoverAllPairs ==
    /\ run.pc = "idle"
    /\ \E force_refresh \in BOOLEAN :
        LET current_time == clock
            time_since_last == current_time - last_discovery_time
            potential_pairs == generate_potential_pairs(settings.tokens, settings.tier,
                                                        settings.rules)
        IN  IF use_cached_pairs(force_refresh, time_since_last,
                                settings.DISCOVERY_INTERVAL_HOURS, discovered_pairs)
            THEN /\ disc_ret' = [returned |-> TRUE, full_run |-> FALSE,
                                 limited |-> FALSE, pairs |-> discovered_pairs]
                 /\ UNCHANGED <<discovered_pairs, last_discovery_time, pairs_file, run>>
            ELSE IF Len(potential_pairs) = 0
                 THEN FinishDiscovery(<<>>, current_time)
                 ELSE CheckBatchAndSleep(force_refresh, current_time, potential_pairs,
                                         0, <<>>)
    /\ active_ret' = NoActiveReturn
    /\ UNCHANGED <<settings, clock>>
    /\ UNCHANGED <<impactVars, confVars, evalVars, genVars, scanVars, gasVars, feedVars, concVars>>

\* the coroutine wakes from asyncio.sleep(1)
DiscoverResume ==
    /\ run.pc = "sleeping"
    /\ IF run.i < Len(run.potential_pairs)
       THEN CheckBatchAndSleep(run.force_refresh, run.current_time,
                               run.potential_pairs, run.i, run.valid_pairs)
       ELSE FinishDiscovery(run.valid_pairs, run.current_time)
    /\ active_ret' = NoActiveReturn
    /\ UNCHANGED <<settings, clock>>
    /\ UNCHANGED <<impactVars, confVars, evalVars, genVars, scanVars, gasVars, feedVars, concVars>>

\* time passes
Tick ==
    /\ clock < MaxClock * HoursPerTick
    /\ clock' = clock + HoursPerTick
    /\ active_ret' = NoActiveReturn
    /\ UNCHANGED <<settings, discovered_pairs, last_discovery_time, pairs_file,
                   run, disc_ret>>
    /\ UNCHANGED <<impactVars, confVars, evalVars, genVars, scanVars, gasVars, feedVars, concVars>>

\* the process is restarted: a new PairDiscovery is constructed from the file
Restart ==
    /\ run.pc = "idle"
    /\ pairs_file.exists
    /\ discovered_pairs' = LoadDiscoveredPairs(pairs_file).pairs
    /\ last_discovery_time' = LoadDiscoveredPairs(pairs_file).last_update
    /\ disc_ret' = NoReturn
    /\ active_ret' = NoActiveReturn
    /\ UNCHANGED <<settings, clock, pairs_file, run>>
    /\ UNCHANGED <<impactVars, confVars, evalVars, genVars, scanVars, gasVars, feedVars, concVars>>

\* get_active_pairs is called between two steps of the event loop
GetActivePairs ==
    /\ LET r == get_active_pairs(discovered_pairs, last_discovery_time, clock)
       IN  /\ active_ret' = [called |-> TRUE, current_time |-> clock, pairs |-> r.pairs]
           /\ discovered_pairs' = r.discovered_pairs
           /\ last_discovery_time' = r.last_discovery_time
    /\ UNCHANGED <<settings, clock, pairs_file, run, disc_ret>>
    /\ UNCHANGED <<impactVars, confVars, evalVars, genVars, scanVars, gasVars, feedVars, concVars>>

NextDiscovery == DiscoverAllPairs \/ DiscoverResume \/ Tick \/ Restart \/ GetActivePairs

SpecDiscovery == InitDiscovery /\ [][NextDiscovery]_vars

(***************************************************************************)
(* Specification SpecScan: one scan_for_opportunities call.  The coroutine *)
(* suspends in asyncio.gather while a pair's quotes are fetched, in        *)
(* asyncio.sleep(0.5) after each batch, and in run_in_executor while an    *)
(* opportunity is stored; a cancellation is delivered at one of these      *)
(* points.  asyncio.CancelledError derives from Exception up to Python 3.7 *)
(* and from BaseException from 3.8 on, which decides whether the           *)
(* "except Exception" handlers catch it.                                   *)
(***************************************************************************)
ScanPool(reserve_a, reserve_b) ==
    [exists |-> TRUE, reserve_a |-> reserve_a, reserve_b |-> reserve_b]

\* what evaluating a pair may meet
ScanMarkets ==
    { [raises |-> FALSE,
       pools |-> [uniswap |-> ScanPool(100, 100), sushiswap |-> ScanPool(100, 200)]],
      [raises |-> FALSE,
       pools |-> [uniswap |-> ScanPool(50, 300), sushiswap |-> ScanPool(100, 100)]],
      [raises |-> FALSE,
       pools |-> [uniswap |-> ScanPool(50, 200), sushiswap |-> ScanPool(50, 300)]],
      [raises |-> TRUE,
       pools |-> [uniswap |-> NoPool, sushiswap |-> NoPool]] }

\* the quotes a cancelled asyncio.gather leaves behind when the handler at
\* get_prices_for_pair 249-251 catches the cancellation
CancelledFetch == [raises |-> FALSE, pools |-> [uniswap |-> NoPool, sushiswap |-> NoPool]]

\* pair lists in which a pair is listed twice, once in each token order
ScanPairListsRepeating ==
    { <<>>,
      << <<"WETH", "USDC">>, <<"USDC", "WETH">>, <<"WBTC", "USDC">> >>,
      << <<"WETH", "USDT">>, <<"WETH", "USDC">> >> }

\* what get_active_pairs, discover_all_pairs or _get_fallback_pairs returned:
\* generate_potential_pairs lists no unordered pair twice, and the fallback
\* list is fixed
ScanPairLists ==
    { <<>>,
      << <<"WETH", "USDC">>, <<"WETH", "USDT">>, <<"WBTC", "USDC">> >>,
      << <<"WBTC", "USDC">>, <<"WETH", "USDC">>, <<"WETH", "USDT">> >>,
      << <<"WETH", "USDT">>, <<"WETH", "USDC">> >> }

ScanSettingsInputs ==
    [MIN_PROFIT_ETH : {FLit(1, 1000), FLit(2, 1000)},
     confidence_threshold : {FLit(45, 100)},
     max_trade_amount_eth : {FLit(1, 1000)}]

InitScan ==
    /\ scan_settings \in ScanSettingsInputs
    /\ cancel_is_exception \in BOOLEAN
    /\ scan = IdleScanRun
    /\ scan_ret = NoScanReturn
    /\ IdleImpact
    /\ IdleConf
    /\ IdleEval
    /\ IdleGen
    /\ IdleDisc
    /\ IdleGas
    /\ IdleFeed
    /\ IdleConc

\* the call returns list (102, or 46 and 106 with an empty list)
ReturnFromScan(locals, list) ==
    /\ scan' = [locals EXCEPT !.pc = "done"]
    /\ scan_ret' = [outcome |-> "returned", list |-> list]

\* an exception that no handler of the call catches leaves it
RaiseFromScan(locals) ==
    /\ scan' = [locals EXCEPT !.pc = "done"]
    /\ scan_ret' = [outcome |-> "raised", list |-> <<>>]

\* scan_for_opportunities is called and runs to its first suspension
ScanStart ==
    /\ scan.pc = "idle"
    /\ \E pairs_to_scan \in ScanPairLists, gas_price \in 0..1 :
        LET locals == [scan EXCEPT !.pairs_to_scan = pairs_to_scan,
                                   !.gas_price = gas_price]
        IN  IF pairs_to_scan = <<>>
            THEN ReturnFromScan(locals, <<>>)
            ELSE /\ scan' = [locals EXCEPT !.pc = "in_pair"]
                 /\ UNCHANGED scan_ret
    /\ UNCHANGED <<scan_settings, cancel_is_exception>>
    /\ UNCHANGED <<impactVars, confVars, evalVars, genVars, discVars, gasVars, feedVars, concVars>>

\* the pair at offset i was evaluated on market with result r; at the end
\* of its batch the batch's opportunities are added and the coroutine sleeps
PairEvaluated(locals, market, r) ==
    IF r.propagated
    \* the handler at 104-106
    THEN ReturnFromScan([locals EXCEPT !.evaluated = Append(@, market)], <<>>)
    ELSE IF (locals.i + 1) % ScanBatchSize = 0 \/ locals.i + 1 = Len(locals.pairs_to_scan)
    THEN /\ scan' = [locals EXCEPT
                        !.pc = "sleeping", !.i = @ + 1,
                        !.evaluated = Append(@, market),
                        !.batch_opportunities = <<>>,
                        !.opportunities =
                            IF r.opportunity.found
                            THEN @ \o Append(locals.batch_opportunities, r.opportunity)
                            ELSE @ \o locals.batch_opportunities]
         /\ UNCHANGED scan_ret
    ELSE /\ scan' = [locals EXCEPT
                        !.i = @ + 1,
                        !.evaluated = Append(@, market),
                        !.batch_opportunities =
                            IF r.opportunity.found THEN Append(@, r.opportunity) ELSE @]
         /\ UNCHANGED scan_ret

EvaluatePair(locals, market) ==
    PairEvaluated(locals, market,
                  scan_pair(locals.pairs_to_scan[locals.i + 1], market,
                            locals.gas_price, scan_settings.max_trade_amount_eth))

\* asyncio.gather of the pair's quotes completes and the pair is analysed
ScanPair ==
    /\ scan.pc = "in_pair"
    /\ \E market \in ScanMarkets : EvaluatePair(scan, market)
    /\ UNCHANGED <<scan_settings, cancel_is_exception>>
    /\ UNCHANGED <<impactVars, confVars, evalVars, genVars, discVars, gasVars, feedVars, concVars>>

\* asyncio.sleep(0.5) is over: the next batch starts, or the opportunities
\* are filtered and the first one is handed to the database
ScanWake ==
    /\ scan.pc = "sleeping"
    /\ IF scan.i < Len(scan.pairs_to_scan)
       THEN /\ scan' = [scan EXCEPT !.pc = "in_pair"]
            /\ UNCHANGED scan_ret
       ELSE LET profitable_opportunities ==
                    filter_profitable_opportunities(scan.opportunities, scan_settings)
                locals == [scan EXCEPT !.profitable = profitable_opportunities]
            IN  IF profitable_opportunities = <<>>
                THEN ReturnFromScan(locals, profitable_opportunities)
                ELSE /\ scan' = [locals EXCEPT !.pc = "storing", !.k = 1]
                     /\ UNCHANGED scan_ret
    /\ UNCHANGED <<scan_settings, cancel_is_exception>>
    /\ UNCHANGED <<impactVars, confVars, evalVars, genVars, discVars, gasVars, feedVars, concVars>>

\* save_opportunity for profitable[k] ends, saved or raising
StoreEnds(locals, saved) ==
    LET stored == Append(locals.stored, saved)
    IN  IF save_failure_propagates(saved)
        \* the handler at 104-106
        THEN ReturnFromScan([locals EXCEPT !.stored = stored], <<>>)
        ELSE IF locals.k = Len(locals.profitable)
        THEN ReturnFromScan([locals EXCEPT !.stored = stored], locals.profitable)
        ELSE /\ scan' = [locals EXCEPT !.stored = stored, !.k = locals.k + 1]
             /\ UNCHANGED scan_ret

\* run_in_executor(self.db.save_opportunity, ...) completes
StoreOpportunity ==
    /\ scan.pc = "storing"
    /\ \E saved \in BOOLEAN : StoreEnds(scan, saved)
    /\ UNCHANGED <<scan_settings, cancel_is_exception>>
    /\ UNCHANGED <<impactVars, confVars, evalVars, genVars, discVars, gasVars, feedVars, concVars>>

\* the scan's task is cancelled while it is suspended
CancelScan ==
    /\ scan.pc \in {"in_pair", "sleeping", "storing"}
    /\ ~scan.cancelled
    /\ LET locals == [scan EXCEPT !.cancelled = TRUE, !.at_cancel = scan.opportunities]
       IN  IF ~cancel_is_exception
           \* no "except Exception" catches it: CancelledError leaves the call
           THEN RaiseFromScan(locals)
           ELSE IF scan.pc = "in_pair"
           \* caught at get_prices_for_pair 249-251: the pair has no quotes
           THEN EvaluatePair(locals, CancelledFetch)
           ELSE IF scan.pc = "sleeping"
           \* caught at 104-106
           THEN ReturnFromScan(locals, <<>>)
           \* caught at 96-97 like a failed write
           ELSE StoreEnds(locals, FALSE)
    /\ UNCHANGED <<scan_settings, cancel_is_exception>>
    /\ UNCHANGED <<impactVars, confVars, evalVars, genVars, discVars, gasVars, feedVars, concVars>>

NextScan == ScanStart \/ ScanPair \/ ScanWake \/ StoreOpportunity \/ CancelScan

SpecScan == InitScan /\ [][NextScan]_vars

(***************************************************************************)
(* get_current_gas_price (arbitrage_detector.py 365-391), in gwei.  The    *)
(* function has no await of its own, so a call is one step.  The node's     *)
(* answer and settings.MAX_GAS_PRICE_GWEI are inputs; time.time() advances  *)
(* between calls.                                                           *)
(***************************************************************************)
\* settings.MAX_GAS_PRICE_GWEI: one maximum below the 20 gwei default, one above
MaxGasPriceInputs == {10, 30}

\* w3.eth.gas_price: the node answers with a price, or the request raises
GasFetches ==
    {[ok |-> TRUE, gas_price |-> g] : g \in {0, 5, 25, 40}}
        \cup {[ok |-> FALSE, gas_price |-> 0]}

InitGas ==
    /\ max_gas_price \in MaxGasPriceInputs
    /\ gas_clock = 0
    /\ gas_price_cache = NoGasPrice
    /\ gas_price_timestamp = 0
    /\ gas_ret = NoGasReturn
    /\ IdleImpact
    /\ IdleConf
    /\ IdleEval
    /\ IdleGen
    /\ IdleDisc
    /\ IdleScan
    /\ IdleFeed
    /\ IdleConc

\* one call of get_current_gas_price
GetCurrentGasPrice ==
    /\ \E fetch \in GasFetches :
          LET r == get_current_gas_price(gas_price_cache, gas_price_timestamp,
                                         gas_clock, fetch, max_gas_price)
          IN  /\ gas_price_cache' = r.cache
              /\ gas_price_timestamp' = r.timestamp
              /\ gas_ret' = [returned |-> TRUE, value |-> r.value, path |-> r.path,
                             fetch_ok |-> (r.path = "fetch"),
                             cache_before |-> gas_price_cache,
                             timestamp_before |-> gas_price_timestamp]
    /\ UNCHANGED <<max_gas_price, gas_clock>>
    /\ UNCHANGED <<impactVars, confVars, evalVars, genVars, discVars, scanVars, feedVars, concVars>>

\* time.time() moves on between two calls
GasTick ==
    /\ gas_clock < MaxGasTicks * GasTickSeconds
    /\ gas_clock' = gas_clock + GasTickSeconds
    /\ UNCHANGED <<max_gas_price, gas_price_cache, gas_price_timestamp, gas_ret>>
    /\ UNCHANGED <<impactVars, confVars, evalVars, genVars, discVars, scanVars, feedVars, concVars>>

NextGas == GetCurrentGasPrice \/ GasTick

SpecGas == InitGas /\ [][NextGas]_vars

(***************************************************************************)
(* Specification SpecSource: where scan_for_opportunities takes its pairs  *)
(* from (arbitrage_detector.py 33-46), on one PairDiscovery object over    *)
(* time.  scan holds the pass: its position, its use_discovery argument,   *)
(* the time of the call, what discovery delivered and pairs_to_scan.  A    *)
(* pass that has its pairs goes on as in SpecScan; here it ends.           *)
(***************************************************************************)
FallbackTokens == {"WETH", "USDC", "USDT", "DAI"}

\* _get_fallback_pairs: the fixed pairs whose two tokens have an address
get_fallback_pairs(known_tokens) ==
    SelectSeq(<< [token1 |-> "WETH", token2 |-> "USDC", priority |-> "high"],
                 [token1 |-> "WETH", token2 |-> "USDT", priority |-> "high"],
                 [token1 |-> "WETH", token2 |-> "DAI", priority |-> "high"] >>,
              LAMBDA pair : pair.token1 \in known_tokens /\ pair.token2 \in known_tokens)

IdleSource(known_tokens) ==
    [pc |-> "idle", use_discovery |-> FALSE, known_tokens |-> known_tokens,
     time |-> 0, source |-> "none", discovery_pairs |-> <<>>, pairs_to_scan |-> <<>>]

\* "if not pairs_to_scan: ... return []", else the pass goes on to scan them
PairsObtained(locals, use_discovery, source, discovery_pairs, pairs_to_scan) ==
    [pc |-> IF pairs_to_scan = <<>> THEN "no_pairs" ELSE "scanning",
     use_discovery |-> use_discovery,
     known_tokens |-> locals.known_tokens,
     time |-> clock,
     source |-> source,
     discovery_pairs |-> discovery_pairs,
     pairs_to_scan |-> pairs_to_scan]

SourceTokens == <<"WETH", "USDC">>
SourceSettingsInputs ==
    [tokens : {SourceTokens},
     tier : {[t \in Range(SourceTokens) |-> "high"]},
     rules : {[always_include_weth |-> TRUE, stablecoin_pairs |-> TRUE,
               major_token_pairs |-> TRUE, max_pairs_per_token |-> 2]},
     MAX_PAIRS_TO_SCAN : {1},
     DISCOVERY_INTERVAL_HOURS : {1, 48},
     batch_size : {2},
     liquidity_threshold_eth : {FLit(1, 10)},
     price_deviation_max : {FLit(1, 8)}]

InitSource ==
    /\ settings \in SourceSettingsInputs
    /\ clock = 0
    /\ pairs_file = NoFile
    /\ discovered_pairs = LoadDiscoveredPairs(pairs_file).pairs
    /\ last_discovery_time = LoadDiscoveredPairs(pairs_file).last_update
    /\ run = IdleRun
    /\ disc_ret = NoReturn
    /\ active_ret = NoActiveReturn
    /\ scan_settings = [MIN_PROFIT_ETH |-> 0, confidence_threshold |-> 0,
                        max_trade_amount_eth |-> 0]
    /\ cancel_is_exception = FALSE
    /\ scan \in {IdleSource(FallbackTokens), IdleSource({"WETH", "USDC"})}
    /\ scan_ret = NoScanReturn
    /\ IdleImpact
    /\ IdleConf
    /\ IdleEval
    /\ IdleGen
    /\ IdleGas
    /\ IdleFeed
    /\ IdleConc

\* "pairs_to_scan = await self.pair_discovery.discover_all_pairs()": the
\* call up to its return or its first sleep
AwaitDiscoverAllPairs(use_discovery) ==
    LET current_time == clock
        time_since_last == current_time - last_discovery_time
        potential_pairs == generate_potential_pairs(settings.tokens, settings.tier,
                                                    settings.rules)
    IN  IF use_cached_pairs(FALSE, time_since_last,
                            settings.DISCOVERY_INTERVAL_HOURS, discovered_pairs)
        THEN /\ disc_ret' = [returned |-> TRUE, full_run |-> FALSE,
                             limited |-> FALSE, pairs |-> discovered_pairs]
             /\ UNCHANGED <<discovered_pairs, last_discovery_time, pairs_file, run>>
             /\ scan' = PairsObtained(scan, use_discovery, "cached",
                                      discovered_pairs, discovered_pairs)
        ELSE IF Len(potential_pairs) = 0
             THEN /\ FinishDiscovery(<<>>, current_time)
                  /\ scan' = PairsObtained(scan, use_discovery, "discovered",
                                           disc_ret'.pairs, disc_ret'.pairs)
             ELSE /\ CheckBatchAndSleep(FALSE, current_time, potential_pairs, 0, <<>>)
                  /\ scan' = [scan EXCEPT !.pc = "awaiting",
                                          !.use_discovery = use_discovery,
                                          !.time = clock]

\* scan_for_opportunities is called and runs until it has its pairs or
\* suspends in discover_all_pairs
ObtainPairs ==
    /\ scan.pc = "idle"
    /\ run.pc = "idle"
    /\ \E use_discovery \in BOOLEAN :
          IF use_discovery
          THEN LET active == get_active_pairs(discovered_pairs, last_discovery_time,
                                              clock).pairs
               IN  IF active # <<>>
                   THEN /\ scan' = PairsObtained(scan, use_discovery, "active",
                                                 active, active)
                        /\ UNCHANGED <<discovered_pairs, last_discovery_time,
                                       pairs_file, run, disc_ret>>
                   ELSE AwaitDiscoverAllPairs(use_discovery)
          ELSE /\ scan' = PairsObtained(scan, use_discovery, "fallback", <<>>,
                                        get_fallback_pairs(scan.known_tokens))
               /\ UNCHANGED <<discovered_pairs, last_discovery_time,
                              pairs_file, run, disc_ret>>
    /\ active_ret' = NoActiveReturn
    /\ UNCHANGED <<settings, clock, scan_settings, cancel_is_exception, scan_ret>>
    /\ UNCHANGED <<impactVars, confVars, evalVars, genVars, gasVars, feedVars, concVars>>

\* the awaited discover_all_pairs wakes from asyncio.sleep(1); when it
\* returns, the pass continues with its result in the same step
AwaitedDiscoveryResumes ==
    /\ scan.pc = "awaiting"
    /\ run.pc = "sleeping"
    /\ IF run.i < Len(run.potential_pairs)
       THEN /\ CheckBatchAndSleep(run.force_refresh, run.current_time,
                                  run.potential_pairs, run.i, run.valid_pairs)
            /\ UNCHANGED scan
       ELSE /\ FinishDiscovery(run.valid_pairs, run.current_time)
            /\ scan' = PairsObtained(scan, scan.use_discovery, "discovered",
                                     disc_ret'.pairs, disc_ret'.pairs)
    /\ active_ret' = NoActiveReturn
    /\ UNCHANGED <<settings, clock, scan_settings, cancel_is_exception, scan_ret>>
    /\ UNCHANGED <<impactVars, confVars, evalVars, genVars, gasVars, feedVars, concVars>>

\* the pass is over; the next one can start
PassEnds ==
    /\ scan.pc \in {"no_pairs", "scanning"}
    /\ scan' = IdleSource(scan.known_tokens)
    /\ active_ret' = NoActiveReturn
    /\ UNCHANGED <<settings, clock, discovered_pairs, last_discovery_time, pairs_file,
                   run, disc_ret, scan_settings, cancel_is_exception, scan_ret>>
    /\ UNCHANGED <<impactVars, confVars, evalVars, genVars, gasVars, feedVars, concVars>>

\* hours pass between two passes; a discovery run, which sleeps one second
\* per batch, does not span a step of the clock
HoursPass == run.pc = "idle" /\ Tick

NextSource == ObtainPairs \/ AwaitedDiscoveryResumes \/ PassEnds \/ HoursPass

SpecSource == InitSource /\ [][NextSource]_vars

(***************************************************************************)
(* Specification SpecFeed: get_pair_address and get_reserves called over   *)
(* time on one PriceFeed, against one WETH/USDC pool on uniswap whose      *)
(* state does not change.  A call may fail (a web3 call raises).           *)
(***************************************************************************)
ChainInputs ==
    [dex : {"uniswap"}, pair_address : FeedPairAddresses, token0 : {"WETH"},
     token1 : {"USDC"}, reserve0 : {0, 100}, reserve1 : {200}]

InitFeed ==
    /\ feed_clock = 0
    /\ feed_chain \in ChainInputs
    /\ feed_cache = [pair |-> [k \in FeedPairKeys |-> NoAddressEntry],
                     reserves |-> [k \in FeedPairAddresses |-> NoReservesEntry]]
    /\ feed_ret = NoFeedReturn
    /\ IdleImpact
    /\ IdleConf
    /\ IdleEval
    /\ IdleGen
    /\ IdleDisc
    /\ IdleScan
    /\ IdleGas
    /\ IdleConc

\* what the call leaves in feed_ret
FeedReturn(op, key, token_a, token_b, entry, outcome, address, reserves) ==
    [called |-> TRUE, op |-> op, key |-> key, token_a |-> token_a, token_b |-> token_b,
     time |-> feed_clock, hit |-> outcome = "hit", outcome |-> outcome,
     address |-> address, reserves |-> reserves,
     before |-> [present |-> entry.present, timestamp |-> entry.timestamp]]

GetPairAddress ==
    /\ \E dex \in FeedDexes, tokens \in FeedTokenArgs, raises \in BOOLEAN :
        LET token_a == tokens[1]
            token_b == tokens[2]
            cache_key == <<dex, token_a, token_b>>
            entry == feed_cache.pair[cache_key]
            cached == get_from_cache(entry, feed_clock, NoAddress)
            pair_address == factory_getPair(feed_chain, dex, token_a, token_b)
        IN  IF cached # NoAddress
            THEN /\ feed_ret' = FeedReturn("get_pair_address", cache_key, token_a,
                                           token_b, entry, "hit", cached, NoReservesResult)
                 /\ UNCHANGED feed_cache
            ELSE IF raises
            THEN /\ feed_ret' = FeedReturn("get_pair_address", cache_key, token_a,
                                           token_b, entry, "raised", NoAddress, NoReservesResult)
                 /\ UNCHANGED feed_cache
            ELSE IF pair_address = ZeroAddress
            THEN /\ feed_ret' = FeedReturn("get_pair_address", cache_key, token_a,
                                           token_b, entry, "absent", NoAddress, NoReservesResult)
                 /\ UNCHANGED feed_cache
            ELSE /\ feed_cache' = [feed_cache EXCEPT !.pair[cache_key] =
                                       set_cache(pair_address, feed_clock)]
                 /\ feed_ret' = FeedReturn("get_pair_address", cache_key, token_a,
                                           token_b, entry, "stored", pair_address,
                                           NoReservesResult)
    /\ UNCHANGED <<feed_clock, feed_chain>>
    /\ UNCHANGED <<impactVars, confVars, evalVars, genVars, discVars, scanVars, gasVars, concVars>>

GetReserves ==
    /\ \E pair_address \in FeedPairAddresses, tokens \in FeedTokenArgs, raises \in BOOLEAN :
        LET token_a == tokens[1]
            token_b == tokens[2]
            cache_key == pair_address
            entry == feed_cache.reserves[cache_key]
            cached == get_from_cache(entry, feed_clock, NoReservesResult)
            result == fetch_reserves(feed_chain, pair_address, token_a, token_b)
        IN  IF cached.present
            THEN /\ feed_ret' = FeedReturn("get_reserves", <<cache_key>>, token_a,
                                           token_b, entry, "hit", NoAddress, cached)
                 /\ UNCHANGED feed_cache
            ELSE IF raises
            THEN /\ feed_ret' = FeedReturn("get_reserves", <<cache_key>>, token_a,
                                           token_b, entry, "raised", NoAddress, NoReservesResult)
                 /\ UNCHANGED feed_cache
            ELSE IF ~result.present
            THEN /\ feed_ret' = FeedReturn("get_reserves", <<cache_key>>, token_a,
                                           token_b, entry, "absent", NoAddress, NoReservesResult)
                 /\ UNCHANGED feed_cache
            ELSE /\ feed_cache' = [feed_cache EXCEPT !.reserves[cache_key] =
                                       set_cache(result, feed_clock)]
                 /\ feed_ret' = FeedReturn("get_reserves", <<cache_key>>, token_a,
                                           token_b, entry, "stored", NoAddress, result)
    /\ UNCHANGED <<feed_clock, feed_chain>>
    /\ UNCHANGED <<impactVars, confVars, evalVars, genVars, discVars, scanVars, gasVars, concVars>>

\* time passes
FeedTick ==
    /\ feed_clock < MaxFeedTicks * FeedTickSeconds
    /\ feed_clock' = feed_clock + FeedTickSeconds
    /\ UNCHANGED <<feed_chain, feed_cache, feed_ret>>
    /\ UNCHANGED <<impactVars, confVars, evalVars, genVars, discVars, scanVars, gasVars, concVars>>

NextFeed == GetPairAddress \/ GetReserves \/ FeedTick

SpecFeed == InitFeed /\ [][NextFeed]_vars

(***************************************************************************)
(* Specification SpecConcurrent: two discover_all_pairs coroutines and     *)
(* get_active_pairs on one PairDiscovery object.  A coroutine suspends     *)
(* only in asyncio.sleep(1) behind a batch; the event loop wakes sleeping  *)
(* coroutines in the order of their deadlines, which for equal delays is   *)
(* the order in which they went to sleep.  The clock may advance whenever  *)
(* the event loop has control.                                             *)
(***************************************************************************)
\* what the venues show for the pairs of one batch: none of them on
\* uniswap, or all of them valid
ConcMarketInputs ==
    { [uniswap |-> AbsentPool, sushiswap |-> Pool(200, 400, TRUE)],
      [uniswap |-> Pool(200, 400, TRUE), sushiswap |-> Pool(100, 225, TRUE)] }

ConcSettingsInputs ==
    [tokens : {DiscoveryTokens},
     tier : {[t \in Range(DiscoveryTokens) |-> "high"]},
     rules : {[always_include_weth |-> TRUE, stablecoin_pairs |-> TRUE,
               major_token_pairs |-> TRUE, max_pairs_per_token |-> 2]},
     MAX_PAIRS_TO_SCAN : {MaxPairsToScan},
     DISCOVERY_INTERVAL_HOURS : {1},
     batch_size : {2},
     liquidity_threshold_eth : {FLit(1, 10)},
     price_deviation_max : {FLit(1, 8)}]

InitConcurrent ==
    /\ settings \in ConcSettingsInputs
    /\ clock = 0
    /\ pairs_file = NoFile
    /\ discovered_pairs = LoadDiscoveredPairs(pairs_file).pairs
    /\ last_discovery_time = LoadDiscoveredPairs(pairs_file).last_update
    /\ run = IdleRun
    /\ disc_ret = NoReturn
    /\ active_ret = NoActiveReturn
    /\ runs = [r \in RunNames |-> IdleRun]
    /\ sleepers = <<>>
    /\ IdleImpact
    /\ IdleConf
    /\ IdleEval
    /\ IdleGen
    /\ IdleScan
    /\ IdleGas
    /\ IdleFeed

\* the coroutine suspended in asyncio.sleep behind the batch at offset i
SleepingRun(force_refresh, current_time, potential_pairs, i, valid_pairs, markets) ==
    [pc |-> "sleeping", force_refresh |-> force_refresh,
     current_time |-> current_time,
     potential_pairs |-> potential_pairs,
     i |-> i + settings.batch_size,
     valid_pairs |-> valid_pairs
                      \o check_pair_batch(BatchAt(potential_pairs, i, settings.batch_size),
                                          markets, settings, clock)]

\* an event loop that wakes the coroutine that went to sleep last
wake_index_last(queue) == Len(queue)

\* the position in the sleep queue of the coroutine whose timer fires next
wake_index(queue) == 1

RemoveAt(queue, k) == SubSeq(queue, 1, k - 1) \o SubSeq(queue, k + 1, Len(queue))

\* one batch of a coroutine and its sleep
ConcBatchAndSleep(r, queue, force_refresh, current_time, potential_pairs, i, valid_pairs) ==
    \E market \in ConcMarketInputs :
        /\ runs' = [runs EXCEPT ![r] =
                       SleepingRun(force_refresh, current_time, potential_pairs, i,
                           valid_pairs,
                           [j \in 1..Len(BatchAt(potential_pairs, i, settings.batch_size))
                               |-> market])]
        /\ sleepers' = Append(queue, r)
        /\ UNCHANGED <<discovered_pairs, last_discovery_time, pairs_file, disc_ret, run>>

\* discover_all_pairs is called, the second coroutine while the first is
\* in progress, and runs to its return or its first sleep
ConcDiscoverAllPairs ==
    /\ \E r \in RunNames, force_refresh \in BOOLEAN :
        /\ runs[r].pc = "idle"
        /\ r = "first" \/ runs["first"].pc # "idle"
        /\ LET current_time == clock
               time_since_last == current_time - last_discovery_time
               potential_pairs == generate_potential_pairs(settings.tokens,
                                      settings.tier, settings.rules)
           IN  IF use_cached_pairs(force_refresh, time_since_last,
                                   settings.DISCOVERY_INTERVAL_HOURS, discovered_pairs)
               THEN /\ disc_ret' = [returned |-> TRUE, full_run |-> FALSE,
                                    limited |-> FALSE, pairs |-> discovered_pairs]
                    /\ UNCHANGED <<discovered_pairs, last_discovery_time, pairs_file,
                                   run, runs, sleepers>>
               ELSE IF Len(potential_pairs) = 0
                    THEN /\ FinishDiscovery(<<>>, current_time)
                         /\ UNCHANGED <<runs, sleepers>>
                    ELSE ConcBatchAndSleep(r, sleepers, force_refresh, current_time,
                                           potential_pairs, 0, <<>>)
    /\ active_ret' = NoActiveReturn
    /\ UNCHANGED <<settings, clock>>
    /\ UNCHANGED <<impactVars, confVars, evalVars, genVars, scanVars, gasVars, feedVars>>

\* the timer of a sleeping coroutine fires: it checks its next batch and
\* sleeps again or, behind the last batch, finishes
ConcWake ==
    /\ sleepers # <<>>
    /\ LET k == wake_index(sleepers)
           r == sleepers[k]
           rest == RemoveAt(sleepers, k)
       IN  IF runs[r].i < Len(runs[r].potential_pairs)
           THEN ConcBatchAndSleep(r, rest, runs[r].force_refresh, runs[r].current_time,
                                  runs[r].potential_pairs, runs[r].i,
                                  runs[r].valid_pairs)
           ELSE /\ FinishDiscovery(runs[r].valid_pairs, runs[r].current_time)
                /\ runs' = [runs EXCEPT ![r] = IdleRun]
                /\ sleepers' = rest
    /\ active_ret' = NoActiveReturn
    /\ UNCHANGED <<settings, clock>>
    /\ UNCHANGED <<impactVars, confVars, evalVars, genVars, scanVars, gasVars, feedVars>>

NextConcurrent == ConcDiscoverAllPairs \/ ConcWake \/ Tick \/ GetActivePairs

SpecConcurrent == InitConcurrent /\ [][NextConcurrent]_vars

(***************************************************************************)
(* Claims about calculate_price_impact, checked under SpecImpact.          *)
(***************************************************************************)
ValidImpactCall(c) ==
    /\ c.called
    /\ pi_reserves.reserve_a > 0
    /\ pi_reserves.reserve_b > 0
    /\ c.trade_amount <= pi_reserves.reserve_a

\* C3: for reserve_in > 0, reserve_out > 0 and 0 <= amount_in <= reserve_in the
\* returned impact is in [0,1), and of two calls on the same reserves the one
\* with the smaller amount returns an impact that is not larger.
C3_ImpactInRangeAndMonotone ==
    ValidImpactCall(pi_ret) =>
        /\ 0 <= pi_ret.impact
        /\ pi_ret.impact < One
        /\ (pi_prev.called /\ pi_prev.trade_amount <= pi_ret.trade_amount)
               => pi_prev.impact <= pi_ret.impact

\* two valid calls, the later one with the larger amount and a larger impact
C3_Witness ==
    /\ ValidImpactCall(pi_ret)
    /\ pi_prev.called
    /\ pi_prev.trade_amount < pi_ret.trade_amount
    /\ 0 < pi_prev.impact
    /\ pi_prev.impact < pi_ret.impact

ZeroReserveCall ==
    /\ pi_ret.called
    /\ (pi_reserves.reserve_a = 0 \/ pi_reserves.reserve_b = 0)

\* C4 as stated: with reserve_in == 0 or reserve_out == 0 the model reports
\* impact == 1.0 and amount_out == 0 (read here for the calls in which the
\* function got as far as computing an amount_out).
C4_Original ==
    (ZeroReserveCall /\ pi_ret.amount_out # Unassigned)
        => (pi_ret.impact = One /\ pi_ret.amount_out = 0)

\* C4 as amended: with reserve_in == 0 or reserve_out == 0 the function returns
\* impact == 1.0 (through its except branch, nothing is raised to the caller);
\* the amount_out it computed is 0 when reserve_out == 0 and the division
\* amount_out = numerator // denominator was defined.
C4_ZeroReserveImpactOne ==
    ZeroReserveCall =>
        /\ pi_ret.impact = One
        /\ pi_ret.raised
        /\ (pi_reserves.reserve_b = 0
              /\ (pi_reserves.reserve_a > 0 \/ pi_ret.trade_amount > 0))
               => pi_ret.amount_out = 0

\* a call with an empty input reserve and a positive amount returned 1.0
C4_Witness ==
    /\ pi_ret.called
    /\ pi_reserves.reserve_a = 0
    /\ pi_reserves.reserve_b > 0
    /\ pi_ret.trade_amount > 0
    /\ pi_ret.impact = One

ExampleCall ==
    /\ pi_ret.called
    /\ pi_reserves = ExampleTrade.reserves
    /\ pi_ret.trade_amount = ExampleTrade.trade_amount

\* C9 as stated: for reserves 1000 / 2000000 and amount 100 the integer
\* computation yields the value 181,425.
C9_Original == ExampleCall => pi_ret.amount_out = 181425

\* C9 as amended: for reserves 1000 / 2000000 and amount 100 the integer
\* computation yields 181322, which is the floor of the formula value
\* (100*0.997*2000000)/(1000+99.7) = 1994000000/10997 = 181322.18...
C9_ExampleAmountOut ==
    ExampleCall =>
        /\ pi_ret.amount_out = 181322
        /\ pi_ret.amount_out * 10997 <= 1994000000
        /\ 1994000000 < (pi_ret.amount_out + 1) * 10997

\* the example call has been made
C9_Witness == ExampleCall /\ pi_ret.amount_out > 0 /\ ~pi_ret.raised

(***************************************************************************)
(* Claims about _calculate_confidence_score, checked under SpecConfidence. *)
(***************************************************************************)
\* the three scores as the design document defines them
C2_ImpactScore == Max(0, One - FDiv(cs_args[1] + cs_args[2], FLit(1, 10)))
C2_LiquidityScore == Min(One, FDiv(Min(cs_args[3], cs_args[4]), 50 * One))
C2_ProfitScore == Min(One, FDivS(cs_args[5], 5 * One))
C2_WeightedSum ==
    FMul(C2_ImpactScore, FLit(4, 10)) + FMul(C2_LiquidityScore, FLit(3, 10))
      + FMulS(C2_ProfitScore, FLit(3, 10))

\* C2: the returned confidence c satisfies 0 <= c <= 1 and equals
\* 0.4*impact_score + 0.3*liquidity_score + 0.3*profit_score clipped to [0,1].
C2_ConfidenceInUnitInterval ==
    cs_ret # NotCalled =>
        /\ 0 <= cs_ret
        /\ cs_ret <= One
        /\ cs_ret = (IF C2_WeightedSum < 0 THEN 0
                     ELSE IF C2_WeightedSum > One THEN One ELSE C2_WeightedSum)

\* a call whose weighted sum is negative (negative margin) was clipped to 0
C2_Witness ==
    /\ cs_ret # NotCalled
    /\ C2_WeightedSum < 0
    /\ cs_ret = 0

(***************************************************************************)
(* Claims about the evaluator, checked under SpecEval.                     *)
(***************************************************************************)
\* C1: every record returned by _analyze_trade_amount, and the opportunity
\* returned by _analyze_pair_opportunity, has net_profit_eth > 0; a candidate
\* whose net profit is <= 0 yields no record.
C1_NetProfitPositive ==
    ev_pc = "done" =>
        /\ \A i \in 1..Len(ev_analyses) :
               ev_analyses[i].analysis.ok => ev_analyses[i].analysis.net_profit_eth > 0
        /\ ev_result.found => ev_result.net_profit_eth > 0

EvPrices == get_prices_for_pair(ev_pools, ev_pair[1], ev_pair[2])
EvBuy == EvPrices[TradeDirection(EvPrices).buy_dex]
EvSell == EvPrices[TradeDirection(EvPrices).sell_dex]
ImpactsAcceptable(amount_wei) ==
    /\ calculate_price_impact(EvBuy, amount_wei).impact <= FLit(5, 100)
    /\ calculate_price_impact(EvSell, amount_wei).impact <= FLit(5, 100)

\* with gas to pay, a ladder amount gave a record and the opportunity was
\* returned, while a larger amount of the same ladder gave none
C1_Witness ==
    /\ ev_pc = "done"
    /\ ev_gas_price > 0
    /\ ev_result.found
    /\ ev_result.net_profit_eth > 0
    /\ ev_result.net_profit_eth < ev_result.estimated_profit_eth
    /\ \E i \in 1..Len(ev_analyses) : ~ev_analyses[i].analysis.ok

IdenticalReserves ==
    /\ ev_pools.uniswap.exists
    /\ ev_pools.sushiswap.exists
    /\ ev_pools.uniswap.reserve_a > 0
    /\ ev_pools.uniswap.reserve_a = ev_pools.sushiswap.reserve_a
    /\ ev_pools.uniswap.reserve_b = ev_pools.sushiswap.reserve_b

\* C10: when the two venues quote the pair with identical reserves,
\* _analyze_pair_opportunity returns no opportunity, and no amount of the
\* trade-size ladder produces a record from _analyze_trade_amount, for every
\* gas price and liquidity.
C10_IdenticalReservesNoOpportunity ==
    (ev_pc = "done" /\ IdenticalReserves) =>
        /\ ~ev_result.found
        /\ \A i \in 1..Len(LadderAnalyses(EvPrices, ev_gas_price, ev_max_trade)) :
               ~LadderAnalyses(EvPrices, ev_gas_price, ev_max_trade)[i].analysis.ok

\* identical non-empty pools whose ladder has an amount within the impact cap,
\* at gas price 0: only the missing price difference stops the trade
C10_Witness ==
    /\ ev_pc = "done"
    /\ IdenticalReserves
    /\ ev_pools.uniswap.reserve_b > 0
    /\ ev_gas_price = 0
    /\ ~ev_result.found
    /\ \E i \in 1..Len(LadderAnalyses(EvPrices, ev_gas_price, ev_max_trade)) :
          ImpactsAcceptable(LadderAnalyses(EvPrices, ev_gas_price, ev_max_trade)[i].amount_wei)

(***************************************************************************)
(* Claims about generate_potential_pairs, checked under SpecGen.           *)
(***************************************************************************)
Generated == gen_result # NotGenerated

\* C6: the returned list holds no unordered pair twice: no two entries are
\* equal, and none is the reverse of another.
C6_NoDuplicateUnorderedPairs ==
    Generated =>
        \A i, j \in 1..Len(gen_result) :
            i # j => /\ gen_result[i] # gen_result[j]
                     /\ gen_result[i] # <<gen_result[j][2], gen_result[j][1]>>

\* all three rules on, the hub listed after a stablecoin of its tier: the
\* hub pair and a stablecoin pair are both met again by the major-token loop
C6_Witness ==
    /\ Generated
    /\ gen_rules.always_include_weth
    /\ gen_rules.stablecoin_pairs
    /\ gen_rules.major_token_pairs
    /\ gen_tokens = <<"USDT", "WETH", "USDC">>
    /\ \A t \in Range(gen_tokens) : gen_tier[t] = "high"
    /\ Len(gen_result) = 3

PairCount(token) ==
    Cardinality({i \in 1..Len(gen_result) :
                    gen_result[i][1] = token \/ gen_result[i][2] = token})

\* C7: no token, the hub WETH included, occurs in more than
\* max_pairs_per_token pairs of the returned list.
C7_PerTokenCap ==
    Generated =>
        \A t \in TokenPool : PairCount(t) <= gen_rules.max_pairs_per_token

\* the hub reached its cap and a candidate pair was dropped for it
C7_Witness ==
    /\ Generated
    /\ gen_rules.max_pairs_per_token > 0
    /\ PairCount("WETH") = gen_rules.max_pairs_per_token
    /\ Len(CandidatePairs(gen_tokens, gen_tier, gen_rules)) > Len(gen_result)

HubEnabled == gen_rules.always_include_weth /\ "WETH" \in Range(gen_tokens)

\* the non-hub tokens in the order generation meets them: tier by tier
HubOrder ==
    LET NotWeth(t) == t # "WETH"
    IN  SelectSeq(get_priority_tokens(gen_tokens, gen_tier, "high")
                    \o get_priority_tokens(gen_tokens, gen_tier, "medium")
                    \o get_priority_tokens(gen_tokens, gen_tier, "low"), NotWeth)

\* C8 as stated: with always-include-hub on and WETH in the universe the
\* output contains (WETH, t) for every non-hub token t of a tier.
C8_Original ==
    (Generated /\ HubEnabled) =>
        \A t \in Range(gen_tokens) \ {"WETH"} : <<"WETH", t>> \in Range(gen_result)

\* C8 as amended: with always-include-hub on and WETH in the universe the
\* output contains (WETH, t) exactly for the first max_pairs_per_token
\* non-hub tokens t, taken tier by tier (high, medium, low) in universe
\* order; so for the universe {WETH, USDC, USDT} it contains (WETH,USDC) and
\* (WETH,USDT) when max_pairs_per_token >= 2.
C8_HubPairsUpToCap ==
    (Generated /\ HubEnabled) =>
        /\ \A i \in 1..Len(HubOrder) :
               (<<"WETH", HubOrder[i]>> \in Range(gen_result))
                   <=> (i <= gen_rules.max_pairs_per_token)
        /\ (Range(gen_tokens) = {"WETH", "USDC", "USDT"}
              /\ gen_rules.max_pairs_per_token >= 2)
               => /\ <<"WETH", "USDC">> \in Range(gen_result)
                  /\ <<"WETH", "USDT">> \in Range(gen_result)

\* the universe {WETH, USDC, USDT} generated with both hub pairs
C8_Witness ==
    /\ Generated
    /\ HubEnabled
    /\ Range(gen_tokens) = {"WETH", "USDC", "USDT"}
    /\ <<"WETH", "USDC">> \in Range(gen_result)
    /\ <<"WETH", "USDT">> \in Range(gen_result)

(***************************************************************************)
(* Claims about discover_all_pairs and rank_pairs.                         *)
(***************************************************************************)
\* rank fields are 1..N in list order
DenseRanks(pairs) == \A i \in 1..Len(pairs) : pairs[i].rank = i

\* the stored score is the ranking score, and never grows along the list
ScoresNonIncreasing(pairs) ==
    /\ \A i \in 1..Len(pairs) : pairs[i].score = calculate_score(pairs[i])
    /\ \A i \in 1..(Len(pairs) - 1) : pairs[i].score >= pairs[i + 1].score

\* C5: after every completed discover_all_pairs run the discovery cache
\* holds N <= MAX_PAIRS_TO_SCAN entries, its rank fields are exactly 1..N in
\* list order, and its scores are non-increasing as rank increases, also
\* when the run truncated the ranked list.
C5_CacheRankedAfterRun ==
    disc_ret.returned =>
        /\ Len(discovered_pairs) <= settings.MAX_PAIRS_TO_SCAN
        /\ DenseRanks(discovered_pairs)
        /\ ScoresNonIncreasing(discovered_pairs)
        /\ disc_ret.pairs = discovered_pairs

\* a full run found more valid pairs than MAX_PAIRS_TO_SCAN, the ranking
\* moved the last candidate to the front, and the cache is the truncated list
C5_Witness ==
    /\ disc_ret.returned /\ disc_ret.full_run /\ disc_ret.limited
    /\ settings.MAX_PAIRS_TO_SCAN = 2
    /\ Len(discovered_pairs) = 2
    /\ discovered_pairs[1].token1 = "WBTC"
    /\ discovered_pairs[2].token1 = "WETH"
    /\ discovered_pairs[1].score > discovered_pairs[2].score
    /\ discovered_pairs[2].rank = 2
(***************************************************************************)
(* Claims about scan_for_opportunities.                                    *)
(***************************************************************************)
\* the call returned a list without having been cancelled
ScanReturned ==
    /\ scan.pc = "done"
    /\ scan_ret.outcome = "returned"
    /\ ~scan.cancelled
    /\ scan.pairs_to_scan # <<>>

\* the opportunities of the pairs, scanned in the order given by the sequence
\* order of positions, each pair on the market it met
OpportunitiesInOrder(order) ==
    LET results == [j \in 1..Len(order) |->
                       scan_pair(scan.pairs_to_scan[order[j]], scan.evaluated[order[j]],
                                 scan.gas_price,
                                 scan_settings.max_trade_amount_eth).opportunity]
        Found(opp) == opp.found
    IN  SelectSeq(results, Found)

ScanOrders ==
    LET n == Len(scan.pairs_to_scan)
    IN  {order \in [1..n -> 1..n] : \A a, b \in 1..n : a # b => order[a] # order[b]}

\* C11 as stated: the list returned by a scan is sorted by net profit
\* descending, ties in net profit broken by confidence descending, and the
\* remaining ties by pair identity, so that the output does not depend on
\* the order in which the pairs were scanned.
C11_Original ==
    (ScanReturned /\ Len(scan.evaluated) = Len(scan.pairs_to_scan)) =>
        /\ \A j \in 1..(Len(scan_ret.list) - 1) :
              \/ scan_ret.list[j].net_profit_eth > scan_ret.list[j + 1].net_profit_eth
              \/ /\ scan_ret.list[j].net_profit_eth = scan_ret.list[j + 1].net_profit_eth
                 /\ scan_ret.list[j].confidence_score
                        >= scan_ret.list[j + 1].confidence_score
        /\ \A order \in ScanOrders :
              filter_profitable_opportunities(OpportunitiesInOrder(order), scan_settings)
                  = scan_ret.list

\* the opportunities of the pairs whose evaluation did not raise, in scan order
OpportunitiesOfOtherPairs ==
    LET n == Len(scan.pairs_to_scan)
        results == [j \in 1..n |->
                       IF scan.evaluated[j].raises THEN NoOpportunity
                       ELSE analyze_pair_opportunity(
                                scan.pairs_to_scan[j], scan.evaluated[j].pools,
                                scan.gas_price,
                                scan_settings.max_trade_amount_eth).result]
        Found(opp) == opp.found
    IN  SelectSeq(results, Found)

\* C12: when evaluating one pair raises, neither the batch nor the scan is
\* aborted: every pair of the list is still evaluated, and the scan returns
\* the filtered opportunities of the pairs that did not raise.
C12_PairFailureIsolated ==
    ScanReturned =>
        /\ Len(scan.evaluated) = Len(scan.pairs_to_scan)
        /\ scan_ret.list =
               filter_profitable_opportunities(OpportunitiesOfOtherPairs, scan_settings)

\* the first pair of the first batch raised, and the scan still returned an
\* opportunity of the third pair, which is in the second batch
C12_Witness ==
    /\ ScanReturned
    /\ Len(scan.pairs_to_scan) = 3
    /\ scan.evaluated[1].raises
    /\ \E j \in 1..Len(scan_ret.list) : scan_ret.list[j].pair = scan.pairs_to_scan[3]

\* C13 as stated: a scan cancelled mid-way returns the opportunities
\* accumulated from the batches completed before the cancellation (ranked
\* or as accumulated).
C13_Original ==
    (scan.pc = "done" /\ scan.cancelled) =>
        /\ scan_ret.outcome = "returned"
        /\ \/ scan_ret.list = scan.at_cancel
           \/ scan_ret.list = filter_profitable_opportunities(scan.at_cancel, scan_settings)

\* C14: a failing save_opportunity never aborts the scan: every ranked
\* opportunity is handed to the database in order, and the scan returns the
\* ranked list it would return with the database working.
C14_SinkFailureIsolated ==
    ScanReturned =>
        /\ scan_ret.list = filter_profitable_opportunities(scan.opportunities, scan_settings)
        /\ Len(scan.stored) = Len(scan_ret.list)

\* the first write failed, the second was still made, and both opportunities
\* were returned
C14_Witness ==
    /\ ScanReturned
    /\ Len(scan_ret.list) = 2
    /\ Len(scan.stored) = 2
    /\ ~scan.stored[1]

MeetsAllFilters(opp) ==
    /\ meets_min_profit(opp, scan_settings)
    /\ meets_confidence(opp, scan_settings)
    /\ has_sufficient_liquidity(opp)

\* C20: every opportunity in the returned list has net profit >= the
\* minimum profit, confidence >= the confidence threshold and sufficient
\* liquidity, and every evaluated opportunity satisfying all three is in
\* the list.
C20_GlobalFilters ==
    ScanReturned =>
        /\ \A j \in 1..Len(scan_ret.list) : MeetsAllFilters(scan_ret.list[j])
        /\ \A j \in 1..Len(scan.opportunities) :
              MeetsAllFilters(scan.opportunities[j]) =>
                  \E m \in 1..Len(scan_ret.list) : scan_ret.list[m] = scan.opportunities[j]

\* of three opportunities found, one was dropped for its net profit, one for
\* its confidence, and one was returned
C20_Witness ==
    /\ ScanReturned
    /\ Len(scan.opportunities) = 3
    /\ Len(scan_ret.list) = 1
    /\ \E j \in 1..3 : ~meets_min_profit(scan.opportunities[j], scan_settings)
    /\ \E j \in 1..3 : /\ meets_min_profit(scan.opportunities[j], scan_settings)
                       /\ ~meets_confidence(scan.opportunities[j], scan_settings)

(***************************************************************************)
(* Claims about get_current_gas_price, checked under SpecGas.              *)
(***************************************************************************)
\* C17 as stated: every value returned by get_current_gas_price is at most
\* the configured maximum gas price, on every path (fresh fetch, cache hit,
\* fetch failure), for every configured maximum and every sequence of calls.
C17_Original ==
    gas_ret.returned => gas_ret.value <= max_gas_price

\* C18 as stated: when the fetch fails, get_current_gas_price returns the
\* last cached value if one was ever fetched and the 20 gwei default only
\* when there is none, and the failed fetch leaves the cached value and its
\* timestamp unchanged.
C18_Original ==
    (gas_ret.returned /\ gas_ret.path = "default") =>
        /\ gas_ret.value = IF gas_ret.cache_before # NoGasPrice
                           THEN gas_ret.cache_before
                           ELSE default_gas_price_gwei
        /\ gas_price_cache = gas_ret.cache_before
        /\ gas_price_timestamp = gas_ret.timestamp_before

(***************************************************************************)
(* Claims about the discovery cache over time, checked under               *)
(* SpecDiscovery.                                                          *)
(***************************************************************************)
\* returned consists of the fresh entries of cache, each once, in cache order
FreshEntriesInCacheOrder(returned, cache, current_time) ==
    \E f \in [1..Len(returned) -> 1..Len(cache)] :
        /\ \A j \in 1..Len(returned) : returned[j] = cache[f[j]]
        /\ \A j, m \in 1..Len(returned) : j < m => f[j] < f[m]
        /\ \A i \in 1..Len(cache) :
              (current_time - cache[i].last_checked < stale_after_hours)
                  <=> (\E j \in 1..Len(returned) : f[j] = i)

\* the step ends a full discovery run, which stores its result as the cache
FullRunReplacesCache ==
    /\ run'.pc = "idle"
    /\ disc_ret'.returned
    /\ disc_ret'.full_run
    /\ discovered_pairs' = disc_ret'.pairs

\* C15: get_active_pairs returns exactly the cache entries whose
\* last_checked is less than 24 hours old, in cache order, and changes
\* neither discovered_pairs (stale entries stay) nor last_discovery_time;
\* the cache changes only in the step in which a full discovery run
\* replaces it.
C15_ActivePairsFreshCacheKept ==
    [][/\ active_ret'.called =>
              /\ FreshEntriesInCacheOrder(active_ret'.pairs, discovered_pairs, clock)
              /\ discovered_pairs' = discovered_pairs
              /\ last_discovery_time' = last_discovery_time
       /\ discovered_pairs' # discovered_pairs => FullRunReplacesCache]_vars

\* get_active_pairs has just returned one of two cached entries: the other
\* one was checked 24 hours earlier and is still in the cache
C15_Witness ==
    /\ active_ret.called
    /\ Len(discovered_pairs) = 2
    /\ Len(active_ret.pairs) = 1
    /\ \E i \in 1..2 : /\ clock - discovered_pairs[i].last_checked = stale_after_hours
                       /\ discovered_pairs[i] # active_ret.pairs[1]

\* C16 as stated: once the cache has been populated, no discover_all_pairs
\* call, forced or not, leaves it empty.
C16_Original ==
    [][discovered_pairs # <<>> => discovered_pairs' # <<>>]_vars

\* the entry has a pair contract on both venues
OnBothVenues(entry) ==
    /\ entry.valid
    /\ entry.uniswap.pair_address # NoPairAddress
    /\ entry.sushiswap.pair_address # NoPairAddress

\* C19 as stated: every cache entry exists on both venues, has on each
\* venue a liquidity estimate strictly greater than the configured minimum,
\* and a price deviation strictly below the sanity bound.
C19_Original ==
    \A i \in 1..Len(discovered_pairs) :
        /\ OnBothVenues(discovered_pairs[i])
        /\ discovered_pairs[i].uniswap.liquidity_eth > settings.liquidity_threshold_eth
        /\ discovered_pairs[i].sushiswap.liquidity_eth > settings.liquidity_threshold_eth
        /\ discovered_pairs[i].metrics.price_difference_pct
               < settings.price_deviation_max * 100

\* C19, amended: every entry that discovery puts into the cache passed the
\* guards of check_single_pair when it was checked: the pair exists on both
\* venues, each venue's liquidity estimate is at least the configured
\* minimum, and the price deviation is at most the sanity bound; a
\* candidate with less liquidity or a larger deviation is not in the cache.
C19_CacheEntriesPassedGuards ==
    \A i \in 1..Len(discovered_pairs) :
        /\ OnBothVenues(discovered_pairs[i])
        /\ discovered_pairs[i].uniswap.liquidity_eth >= settings.liquidity_threshold_eth
        /\ discovered_pairs[i].sushiswap.liquidity_eth >= settings.liquidity_threshold_eth
        /\ discovered_pairs[i].metrics.price_difference_pct
               <= settings.price_deviation_max * 100

\* the cache holds an entry whose sushiswap liquidity equals the minimum and
\* whose price deviation equals the bound
C19_Witness ==
    \E i \in 1..Len(discovered_pairs) :
        /\ OnBothVenues(discovered_pairs[i])
        /\ discovered_pairs[i].sushiswap.liquidity_eth = settings.liquidity_threshold_eth
        /\ discovered_pairs[i].metrics.price_difference_pct
               = settings.price_deviation_max * 100

(***************************************************************************)
(* Further claims about scan_for_opportunities, checked under SpecScan.    *)
(***************************************************************************)
UnorderedPair(opp) == {opp.pair[1], opp.pair[2]}

Reversed(reserves) == [reserve_a |-> reserves.reserve_b, reserve_b |-> reserves.reserve_a]

\* the two-leg simulation: leg 1 swaps the trade amount on the buy venue,
\* leg 2 swaps the output of leg 1 back on the sell venue
Leg1(amount_wei) == calculate_price_impact(EvBuy, amount_wei)
Leg2(amount_wei) == calculate_price_impact(Reversed(EvSell), Leg1(amount_wei).amount_out)

\* leg-2 output minus the trade amount, in ether
TwoLegGrossProfit(amount_wei) ==
    from_wei_ether(Leg2(amount_wei).amount_out) - from_wei_ether(amount_wei)

\* C22: for every candidate that produced a record, the gross profit is the
\* leg-2 output minus the trade amount, where leg 1 feeds the trade amount
\* into the buy venue and leg 2 feeds the leg-1 output into the sell venue's
\* reversed reserves; the sell-side impact is the impact of leg 2.
C22_Original ==
    ev_pc = "done" =>
        \A i \in 1..Len(ev_analyses) :
            ev_analyses[i].analysis.ok =>
                /\ simplified_gross_profit(ev_analyses[i].amount_wei, EvBuy, EvSell)
                       = TwoLegGrossProfit(ev_analyses[i].amount_wei)
                /\ ev_analyses[i].analysis.price_impact_sell
                       = Leg2(ev_analyses[i].amount_wei).impact

\* both quotes are present and the price difference passed the 0.1% filter,
\* so the trade-size search ran
EvSearchRan ==
    /\ EvPrices.uniswap.present
    /\ EvPrices.sushiswap.present
    /\ Min(EvPrices.uniswap.price, EvPrices.sushiswap.price) > 0
    /\ FMul(FDiv(Abs(EvPrices.uniswap.price - EvPrices.sushiswap.price),
                 Min(EvPrices.uniswap.price, EvPrices.sushiswap.price)), 100 * One)
           >= FLit(1, 10)

LadderFractions == <<FLit(1, 100), FLit(25, 1000), FLit(5, 100), FLit(1, 10)>>
EvMinLiquidity == Min(EvBuy.liquidity_eth, EvSell.liquidity_eth)

\* the ladder candidate of a fraction: that fraction of the smaller venue's
\* liquidity, capped by the maximum trade size
LadderCandidate(k) == Min(FMul(EvMinLiquidity, LadderFractions[k]), ev_max_trade)

\* C23: the search evaluates every ladder candidate (1%, 2.5%, 5%, 10% of the
\* smaller liquidity, each capped by the maximum trade size) that is at least
\* 0.001 ETH, in ascending order, and no evaluated amount exceeds
\* min(10% of the smaller liquidity, maximum trade size).
C23_Original ==
    (ev_pc = "done" /\ EvSearchRan) =>
        /\ \A k \in 1..4 :
               LadderCandidate(k) >= FLit(1, 1000) =>
                   \E i \in 1..Len(ev_analyses) :
                       ev_analyses[i].amount_wei = to_wei_ether(LadderCandidate(k))
        /\ \A i, j \in 1..Len(ev_analyses) :
               i < j => ev_analyses[i].amount_wei <= ev_analyses[j].amount_wei
        /\ \A i \in 1..Len(ev_analyses) :
               ev_analyses[i].amount_wei <= to_wei_ether(LadderCandidate(4))

\* the evaluated candidates that produced a record
EvRecords == {i \in 1..Len(ev_analyses) : ev_analyses[i].analysis.ok}
CombinedImpact(i) ==
    ev_analyses[i].analysis.price_impact_buy + ev_analyses[i].analysis.price_impact_sell

\* C24: the returned opportunity is the evaluated candidate with the highest
\* net profit among those that produced a record; among candidates of equal
\* net profit it is the one of lowest combined price impact, then of largest
\* amount; no opportunity is returned when no candidate produced a record.
C24_BestCandidate ==
    ev_pc = "done" =>
        /\ ev_result.found <=> EvRecords # {}
        /\ ev_result.found =>
               \E i \in EvRecords :
                   /\ ev_result.trade_amount_wei = ev_analyses[i].amount_wei
                   /\ ev_result.net_profit_eth = ev_analyses[i].analysis.net_profit_eth
                   /\ \A j \in EvRecords :
                          /\ ev_analyses[j].analysis.net_profit_eth
                                 <= ev_analyses[i].analysis.net_profit_eth
                          /\ ev_analyses[j].analysis.net_profit_eth
                                 = ev_analyses[i].analysis.net_profit_eth
                             => \/ CombinedImpact(i) < CombinedImpact(j)
                                \/ /\ CombinedImpact(i) = CombinedImpact(j)
                                   /\ ev_analyses[i].amount_wei >= ev_analyses[j].amount_wei

\* two candidates produced a record and the larger one, of strictly higher
\* net profit, was returned
C24_Witness ==
    /\ ev_pc = "done"
    /\ ev_result.found
    /\ \E i, j \in EvRecords :
          /\ ev_analyses[j].amount_wei < ev_analyses[i].amount_wei
          /\ ev_analyses[j].analysis.net_profit_eth < ev_analyses[i].analysis.net_profit_eth
          /\ ev_result.trade_amount_wei = ev_analyses[i].amount_wei

(***************************************************************************)
(* Further claims about discover_all_pairs, checked under SpecDiscovery.   *)
(***************************************************************************)
\* a step that is a call of discover_all_pairs: it returns or suspends
DiscoverCallStep ==
    /\ run.pc = "idle"
    /\ clock' = clock
    /\ ~active_ret'.called
    /\ run'.pc = "sleeping" \/ disc_ret'.returned

\* the interval has not elapsed and the cache is not empty
CacheFresh ==
    /\ clock - last_discovery_time < settings.DISCOVERY_INTERVAL_HOURS
    /\ discovered_pairs # <<>>

\* the call returns the cached pairs and changes nothing
CachedReturnStep ==
    /\ disc_ret' = [returned |-> TRUE, full_run |-> FALSE, limited |-> FALSE,
                    pairs |-> discovered_pairs]
    /\ UNCHANGED <<discovered_pairs, last_discovery_time, pairs_file, run>>

\* the call starts a full run: it suspends in the batch loop or, with no
\* candidate pair, finishes at once
FullRunStep == run'.pc = "sleeping" \/ (disc_ret'.returned /\ disc_ret'.full_run)

\* C25: a call of discover_all_pairs does a full run when the interval has
\* elapsed or the cache is empty; when the cache is fresh and not empty it
\* either returns the cached pairs, checking no venue and leaving the cache,
\* last_discovery_time and the file unchanged, or is a forced full run.
C25_Act_RunOnlyWhenNeeded ==
    [][DiscoverCallStep =>
          /\ ~CacheFresh => FullRunStep
          /\ CacheFresh =>
                \/ CachedReturnStep
                \/ FullRunStep /\ (run'.pc = "sleeping" => run'.force_refresh)]_vars

\* a call at a time when the cache is fresh has returned the cached pairs
C25_Witness ==
    /\ disc_ret.returned
    /\ ~disc_ret.full_run
    /\ disc_ret.pairs # <<>>
    /\ disc_ret.pairs = discovered_pairs
    /\ clock = last_discovery_time
    /\ run.pc = "idle"

(***************************************************************************)
(* Claims about the pairs a scan pass takes, checked under SpecSource.     *)
(***************************************************************************)
\* the pass has its pairs (or has returned for want of them)
PassHasPairs == scan.pc \in {"no_pairs", "scanning"}

\* C26: a pass scans the pairs discovery delivers and, when discovery is
\* disabled or delivers no pair even after running, scans the fallback list
\* instead of scanning nothing.
C26_Original ==
    PassHasPairs =>
        IF scan.use_discovery /\ scan.discovery_pairs # <<>>
        THEN scan.pairs_to_scan = scan.discovery_pairs
        ELSE scan.pairs_to_scan = get_fallback_pairs(scan.known_tokens)

\* C28: every entry of the pair list of a pass that uses discovery has a
\* last_checked less than 24 hours before the pass.
C28_Original ==
    (PassHasPairs /\ scan.use_discovery) =>
        \A i \in 1..Len(scan.pairs_to_scan) : IsFresh(scan.pairs_to_scan[i], scan.time)

(***************************************************************************)
(* Claims about PriceFeed's cache, checked under SpecFeed.                 *)
(***************************************************************************)
\* the cache entry of the key of the last call, as it is now
FeedEntry ==
    IF feed_ret.op = "get_pair_address" THEN feed_cache.pair[feed_ret.key]
    ELSE feed_cache.reserves[feed_ret.key[1]]

\* the last call returned just the data of that entry
FeedReturnedEntryData ==
    IF feed_ret.op = "get_pair_address" THEN feed_ret.address = FeedEntry.data
    ELSE feed_ret.reserves = FeedEntry.data

FeedReturnedNone == feed_ret.address = NoAddress /\ ~feed_ret.reserves.present

\* C27: a call is served from the cache exactly when its key has an entry
\* of age below the 30-second TTL, and then leaves the entry as it is; any
\* other call fetches, a successful fetch is stored with the current time,
\* and a failed or absent fetch result is not stored.
C27_CacheServesWithinTtl ==
    feed_ret.called =>
        /\ feed_ret.hit <=> /\ feed_ret.before.present
                            /\ feed_ret.time - feed_ret.before.timestamp < cache_ttl
        /\ feed_ret.hit =>
               /\ FeedReturnedEntryData
               /\ FeedEntry.present
               /\ FeedEntry.timestamp = feed_ret.before.timestamp
        /\ ~feed_ret.hit => feed_ret.outcome \in {"stored", "absent", "raised"}
        /\ feed_ret.outcome = "stored" =>
               /\ FeedEntry.present
               /\ FeedEntry.timestamp = feed_ret.time
               /\ FeedReturnedEntryData
               /\ ~FeedReturnedNone
        /\ feed_ret.outcome \in {"absent", "raised"} =>
               /\ FeedReturnedNone
               /\ FeedEntry.present = feed_ret.before.present
               /\ FeedEntry.timestamp = feed_ret.before.timestamp

\* a call found an entry exactly 30 seconds old, fetched and stored anew
C27_Witness ==
    /\ feed_ret.called
    /\ feed_ret.before.present
    /\ feed_ret.time - feed_ret.before.timestamp = cache_ttl
    /\ feed_ret.outcome = "stored"
    /\ FeedEntry.timestamp = feed_ret.time

\* C29: a get_reserves call that returns a result returns reserve_a as the
\* reserve of the token passed as token_a, reserve_b as that of token_b and
\* price = reserve_b / reserve_a, the result a fetch with these arguments
\* gives on the pool (whose state does not change), cache hit or not.
C29_Original ==
    (feed_ret.called /\ feed_ret.op = "get_reserves" /\ feed_ret.reserves.present) =>
        feed_ret.reserves
            = fetch_reserves(feed_chain, feed_ret.key[1], feed_ret.token_a, feed_ret.token_b)

(***************************************************************************)
(* Claims about concurrent discovery, checked under SpecConcurrent.        *)
(***************************************************************************)
\* the step is the finish of a coroutine, which publishes its whole ranked
\* and limited list
PublishesWholeList ==
    \E r \in RunNames :
        /\ runs[r].pc = "sleeping"
        /\ runs'[r].pc = "idle"
        /\ discovered_pairs' = limit_to_max_pairs(rank_pairs(runs[r].valid_pairs),
                                                  settings.MAX_PAIRS_TO_SCAN)

\* C30: under every interleaving of two discover_all_pairs coroutines and
\* get_active_pairs, the cache changes only from one complete ranked list
\* to the next, a reader is given the fresh entries of the complete list
\* of the moment, and last_discovery_time never decreases.
C30_Act_WholeCacheMonotoneTime ==
    [][/\ last_discovery_time' >= last_discovery_time
       /\ discovered_pairs' # discovered_pairs => PublishesWholeList
       /\ active_ret'.called =>
              /\ active_ret'.pairs = FreshPairs(discovered_pairs, clock)
              /\ discovered_pairs' = discovered_pairs]_vars

\* the first coroutine has finished and published pairs while the second,
\* started later during the first, still sleeps with pairs of its own
C30_Witness ==
    /\ runs["first"].pc = "idle"
    /\ runs["second"].pc = "sleeping"
    /\ runs["second"].current_time > last_discovery_time
    /\ runs["second"].valid_pairs # <<>>
    /\ disc_ret.returned
    /\ disc_ret.full_run
    /\ discovered_pairs # <<>>
    /\ discovered_pairs = disc_ret.pairs

====
